---- MODULE Spec2Model ----
(***************************************************************************)
(* firebase-test: the immutable, forkable Context (src/context.js), the    *)
(* path helper (src/path.js) and the Live (REST) driver with its token     *)
(* cache, rules-deployment cache and per-project sequence lock             *)
(* (src/drivers/live.js as bundled in src/src/index.js).                   *)
(*                                                                         *)
(* JavaScript strings that the code manipulates (paths) are sequences of   *)
(* one-character strings.  Objects live in a heap: a context is a record   *)
(* holding its prototype, its own properties and the id of its `ops`       *)
(* array, so that aliasing between a context and its forks is visible.     *)
(***************************************************************************)
EXTENDS Integers, Sequences, FiniteSets, TLC

VARIABLES
    heap,        \* [ctxs: Seq(context object), arrs: Seq(ops array)]
    calls,       \* calls[c]: the chain call that returned context c
    nexec,       \* number of LiveDriver.exec calls made so far
    execs,       \* per exec call: the state of its promises and requests
    sequences,   \* sequences.get(projectId): 0 (absent) or the exec whose result it follows
    rulesRequests, \* rulesRequests.get(projectId): 0 (absent) or the exec that deployed
    remote,      \* the remote database: the ruleset the last rules request installed
    jobs,        \* the promise job (microtask) queue, oldest first
    sim,         \* Simulated Driver: ID_COUNT and the exec calls made, with their traces
    defer,       \* promise helpers: the thenables made, and the run/all chain over them
    created,     \* the create calls made: their arguments and how each ended
    stub,        \* a stub driver: the init and exec calls it received
    runs,        \* the chain, then and catch calls made on contexts
    asserts,     \* the ok and shouldFail calls made on contexts
    pathCall,    \* a call of the path helper: its arguments and its result
    legacy       \* the chained Context of testsuite.js: its chain and the connection

vars == <<heap, calls, nexec, execs, sequences, rulesRequests, remote, jobs, sim, defer,
          created, stub, runs, asserts, pathCall, legacy>>

----------------------------------------------------------------------------
(* Bounds *)

MaxCtx == 4        \* contexts in the heap of the chain specification
MaxExec == 2       \* exec calls in the live specification
MaxSeqExec == 3    \* exec calls in the specification of awaited exec calls
MaxLockExec == 4   \* exec calls in the lock specification
MaxRunExec == 2    \* exec calls in the specification of runOps
MaxSimExec == 3    \* exec calls in the specification of the Simulated Driver
MaxThenable == 3   \* thenables handed to run or all
MaxOwn == 2        \* thenables a caller consumes itself
MaxConsume == 3    \* then/catch/asCallback calls a caller makes in all
MaxRelExec == 2    \* exec calls in the specification of the lock's release
MaxTrimLen == 5    \* characters of a string handed to trim
MaxJoinArgs == 3   \* arguments of a join call
MaxCreate == 3     \* create calls in the specification of create
MaxRuns == 3       \* chain, then and catch calls made on contexts
MaxAsserts == 1    \* ok and shouldFail calls made on contexts
MaxUses == 3       \* then and catch calls made on one deferred assertion
MaxResetExec == 3  \* exec calls in the specification of reset
MaxReset == 1      \* reset calls in the specification of reset
MaxDeployExec == 3 \* exec calls in the specification of deployments
MaxAdminExec == 2  \* exec calls in the specification of the admin token
MaxBothExec == 1   \* live exec calls in the specification of the two drivers
MaxLegacyCalls == 3 \* calls chained on the Context of testsuite.js

----------------------------------------------------------------------------
(* JavaScript values *)

Null == "null"
Undefined == "undefined"

\* a remote database no rules request has reached yet
NoRuleset == "no ruleset"

\* identities: `null`, or an auth object {uid, role?}
NullAuth == [nil |-> TRUE, uid |-> "", role |-> ""]
AuthObj(uid, role) == [nil |-> FALSE, uid |-> uid, role |-> role]

\* operation options: each field "U" (absent), "T" or "F"
NoOptions == [debug |-> "U", silent |-> "U"]
DebugOptions == [debug |-> "T", silent |-> "F"]

\* a path argument: a string, an array of strings, or undefined
Str(s) == [t |-> "str", items |-> <<s>>]
Arr(a) == [t |-> "arr", items |-> a]
NoPath == [t |-> "undef", items |-> << >>]

\* the variables the driver specifications leave alone
Harness == <<created, stub, runs, asserts, pathCall, legacy>>

\* new Context(suite, Promise.resolve()): no call chained, no effect on the
\* connection yet, no request in flight (flying: its place in effects, or 0)
LegacyInit == [calls |-> 0, todo |-> << >>, flying |-> 0, state |-> "fulfilled",
               effects |-> << >>, currentUser |-> "undefined"]

\* a stub driver that has received no call
StubInit == [inits |-> << >>, execs |-> << >>]

\* no call of the path helper
NoPathCall == [fn |-> "none", args |-> << >>, result |-> << >>, done |-> FALSE]

----------------------------------------------------------------------------
(* src/path.js *)

IsSpace(c) == c = " "

RECURSIVE DropWhileSpace(_)
DropWhileSpace(s) ==
    IF s # << >> /\ IsSpace(Head(s)) THEN DropWhileSpace(Tail(s)) ELSE s

RECURSIVE DropEndSpace(_)
DropEndSpace(s) ==
    IF s # << >> /\ IsSpace(s[Len(s)])
    THEN DropEndSpace(SubSeq(s, 1, Len(s) - 1)) ELSE s

\* String.prototype.trim
StrTrim(s) == DropEndSpace(DropWhileSpace(s))

RECURSIVE DropLeadingSlashes(_)
\* .replace(/^\/+/, '')
DropLeadingSlashes(s) ==
    IF s # << >> /\ Head(s) = "/" THEN DropLeadingSlashes(Tail(s)) ELSE s

RECURSIVE DropTrailingSlashes(_)
\* .replace(/\/+$/, '')
DropTrailingSlashes(s) ==
    IF s # << >> /\ s[Len(s)] = "/"
    THEN DropTrailingSlashes(SubSeq(s, 1, Len(s) - 1)) ELSE s

RECURSIVE Decode(_)
\* decodeURIComponent, for %2F
Decode(s) ==
    IF s = << >> THEN << >>
    ELSE IF Len(s) >= 3 /\ SubSeq(s, 1, 3) = <<"%", "2", "F">>
    THEN <<"/">> \o Decode(SubSeq(s, 4, Len(s)))
    ELSE <<Head(s)>> \o Decode(Tail(s))

\* a trim that decodes its input before it strips it
trimDecoding(arg) ==
    LET path == IF arg.t = "undef" THEN << >> ELSE arg.items[1]
    IN DropTrailingSlashes(DropLeadingSlashes(StrTrim(Decode(path))))

\* exports.trim = function(path = '')
trim(arg) ==
    LET path == IF arg.t = "undef" THEN << >> ELSE arg.items[1]
    IN DropTrailingSlashes(DropLeadingSlashes(StrTrim(path)))

\* [].concat(...paths): arrays among the arguments are flattened one level
RECURSIVE Concat(_)
Concat(paths) ==
    IF paths = << >> THEN << >>
    ELSE LET p == Head(paths)
             these == IF p.t = "arr"
                      THEN [i \in 1..Len(p.items) |-> Str(p.items[i])]
                      ELSE <<p>>
         IN these \o Concat(Tail(paths))

RECURSIVE JoinWith(_, _)
\* Array.prototype.join
JoinWith(strs, sep) ==
    IF strs = << >> THEN << >>
    ELSE IF Len(strs) = 1 THEN strs[1]
    ELSE strs[1] \o sep \o JoinWith(Tail(strs), sep)

\* exports.join = function(...paths)
join(paths) ==
    LET flat == Concat(paths)
    IN JoinWith([i \in 1..Len(flat) |-> trim(flat[i])], <<"/">>)

----------------------------------------------------------------------------
(* src/context.js: the Context class, on the heap *)

EmptyHeap == [ctxs |-> << >>, arrs |-> << >>]

NoOpts == [hasAuth |-> FALSE, auth |-> NullAuth, hasSeed |-> FALSE, seed |-> Null]

\* constructor({rules, driver}): every property is an own property
create(h, rules, driver) ==
    [ctxs |-> Append(h.ctxs,
                [proto |-> 0, rules |-> rules, driver |-> driver,
                 hasAuth |-> TRUE, auth |-> NullAuth,
                 hasSeed |-> TRUE, seed |-> Null,
                 ops |-> Len(h.arrs) + 1]),
     arrs |-> Append(h.arrs, << >>)]

RECURSIVE authOf(_, _)
\* reading ctx.auth: an own property, or the prototype's
authOf(h, c) ==
    IF c = 0 THEN NullAuth
    ELSE IF h.ctxs[c].hasAuth THEN h.ctxs[c].auth
    ELSE authOf(h, h.ctxs[c].proto)

RECURSIVE seedOf(_, _)
\* reading ctx.seed: an own property, or the prototype's
seedOf(h, c) ==
    IF c = 0 THEN Null
    ELSE IF h.ctxs[c].hasSeed THEN h.ctxs[c].seed
    ELSE seedOf(h, h.ctxs[c].proto)

\* reading ctx.ops: always an own property (fork assigns it)
opsOf(h, c) == h.arrs[h.ctxs[c].ops]

rulesOf(h, c) == h.ctxs[c].rules

\* the array fork() gives the new context: this.ops.slice(), a fresh copy
SharedOps(h, this) ==
    [id |-> h.ctxs[this].ops, arrs |-> h.arrs]

forkOps(h, this) ==
    [id |-> Len(h.arrs) + 1, arrs |-> Append(h.arrs, opsOf(h, this))]

\* fork(opts = {}): Object.create(this), then Object.assign(fork, opts,
\* {driver, rules, ops: this.ops.slice()}).  The new context is Len(ctxs)+1.
fork(h, this, opts) ==
    LET o == forkOps(h, this)
    IN [ctxs |-> Append(h.ctxs,
                  [proto |-> this,
                   rules |-> h.ctxs[this].rules, driver |-> h.ctxs[this].driver,
                   hasAuth |-> opts.hasAuth, auth |-> opts.auth,
                   hasSeed |-> opts.hasSeed, seed |-> opts.seed,
                   ops |-> o.id]),
        arrs |-> o.arrs]

Returned(h) == Len(h.ctxs)

StartWithKeepingOps(h, this, seed) ==
    fork(h, this, [NoOpts EXCEPT !.hasSeed = TRUE, !.seed = seed])

\* startWith(seed): fork({seed}), then fork.ops = [] (a new array)
startWith(h, this, seed) ==
    LET f == fork(h, this, [NoOpts EXCEPT !.hasSeed = TRUE, !.seed = seed])
        r == Returned(f)
    IN [ctxs |-> [f.ctxs EXCEPT ![r].ops = Len(f.arrs) + 1],
        arrs |-> Append(f.arrs, << >>)]

\* asGuest(): fork({auth: null})
asGuest(h, this) ==
    fork(h, this, [NoOpts EXCEPT !.hasAuth = TRUE, !.auth = NullAuth])

\* a property of an object, "" when the object has none of that name
Field(obj, name) == IF name \in DOMAIN obj THEN obj[name] ELSE ""

\* Object.assign(target, source), on the properties uid and role
Assign(target, source) ==
    [uid |-> IF Field(source, "uid") # "" THEN source.uid ELSE Field(target, "uid"),
     role |-> IF Field(source, "role") # "" THEN source.role ELSE Field(target, "role")]

\* an as that lets the claims overwrite the uid: Object.assign({uid}, opts)
asClaimsWin(h, this, uid, opts) ==
    IF uid = "" THEN asGuest(h, this)
    ELSE LET auth == Assign(Assign([uid |-> "", role |-> ""], [uid |-> uid]), opts)
         IN fork(h, this, [NoOpts EXCEPT !.hasAuth = TRUE,
                                         !.auth = AuthObj(auth.uid, auth.role)])

\* as(uid, opts): a falsy uid logs off; else auth = Object.assign({}, opts, {uid})
as(h, this, uid, opts) ==
    IF uid = "" THEN asGuest(h, this)
    ELSE LET auth == Assign(Assign([uid |-> "", role |-> ""], opts), [uid |-> uid])
         IN fork(h, this, [NoOpts EXCEPT !.hasAuth = TRUE,
                                         !.auth = AuthObj(auth.uid, auth.role)])

\* an own-property read of the identity, losing what the prototype holds
OwnAuth(h, this) ==
    IF h.ctxs[this].hasAuth THEN h.ctxs[this].auth ELSE NullAuth

\* the auth an appended operation records: `const {auth = null} = this`
appendAuth(h, this) == authOf(h, this)

UnshiftOp(arr, operation) == <<operation>> \o arr

\* fork.ops.push(operation)
pushOp(arr, operation) == Append(arr, operation)

\* append({op, paths, value, options = {}}): fork(), then fork.ops.push(...)
append(h, this, op, paths, value, options) ==
    LET f == fork(h, this, NoOpts)
        r == Returned(f)
        a == f.ctxs[r].ops
        operation == [op |-> op, path |-> join(<<paths>>), value |-> value,
                      auth |-> appendAuth(h, this), options |-> options]
    IN [ctxs |-> f.ctxs,
        arrs |-> [f.arrs EXCEPT ![a] = pushOp(@, operation)]]

\* get(paths, opts): value is undefined; options defaults to {} in append
get(h, this, paths, opts) == append(h, this, "get", paths, Undefined, opts)

\* set(paths, value = null, opts = {})
set(h, this, paths, value, opts) ==
    append(h, this, "set", paths, IF value = Undefined THEN Null ELSE value, opts)

\* update(paths, patch = {}, opts = {})
update(h, this, paths, patch, opts) ==
    append(h, this, "update", paths, IF patch = Undefined THEN "{}" ELSE patch, opts)

\* push(paths, value = null, opts = {})
push(h, this, paths, value, opts) ==
    append(h, this, "push", paths, IF value = Undefined THEN Null ELSE value, opts)

\* a remove that logs an operation of its own kind
removeAsOwnKind(h, this, paths, opts) == append(h, this, "remove", paths, Null, opts)

\* remove(paths, opts = {})
remove(h, this, paths, opts) == append(h, this, "set", paths, Null, opts)

\* a stub driver's init(ctx): the call is recorded with what ctx holds then
stubInit(st, h, c) ==
    [st EXCEPT !.inits = Append(@, [ctx |-> c, ops |-> opsOf(h, c),
                                    auth |-> authOf(h, c), seed |-> seedOf(h, c)])]

\* the options of create: {rules, driver}, "" for a missing property
NoCreateOpts == [rules |-> "", driver |-> ""]

Thrown(h, st, msg) == [threw |-> msg, heap |-> h, stub |-> st, ctx |-> 0]

\* a constructor that sets the driver up before it looks at its options
ContextInitFirst(h, st, opts) ==
    LET new == create(h, opts.rules, opts.driver)
        c == Returned(new)
    IN IF opts.rules = "" THEN Thrown(h, stubInit(st, new, c), "No rules provided.")
       ELSE IF opts.driver = "" THEN Thrown(h, st, "No driver provided to the context.")
       ELSE [threw |-> "", heap |-> new, stub |-> stubInit(st, new, c), ctx |-> c]

\* exports.create(opts): new Context(opts), the constructor({rules, driver} = {})
Context(h, st, opts) ==
    IF opts.rules = "" THEN Thrown(h, st, "No rules provided.")
    ELSE IF opts.driver = "" THEN Thrown(h, st, "No driver provided to the context.")
    ELSE LET new == create(h, opts.rules, opts.driver)
             c == Returned(new)
         IN [threw |-> "", heap |-> new, stub |-> stubInit(st, new, c), ctx |-> c]

----------------------------------------------------------------------------
(* src/promise.js: thenable, run, all *)

\* what a rejection carries: an Error, an array of Errors, or undefined
Err(name) == [t |-> "error", name |-> name, items |-> << >>]
ErrArray(names) == [t |-> "array", name |-> "", items |-> names]
NoReason == [t |-> "undefined", name |-> "", items |-> << >>]

\* a resolver: returns a value, throws, or returns a promise that is
\* fulfilled or rejected later
Resolver(how, reason) == [how |-> how, reason |-> reason]

NoChain == [kind |-> "none", list |-> << >>, pos |-> 0, state |-> "none",
            failures |-> << >>, error |-> "", reason |-> NoReason, errors |-> << >>]

\* no thenable made, no run or all called
DeferInit == [thenables |-> << >>, chain |-> NoChain]

\* thenable(resolver): nothing runs; `cached` has not been called
thenable(resolver) ==
    [resolver |-> resolver, called |-> 0, state |-> "idle", reason |-> NoReason,
     consumed |-> 0, plain |-> 0, seen |-> << >>, dones |-> 0, done |-> << >>]

\* new Promise(resolve => resolve(resolver())): the resolver is called
invoke(d) ==
    [d EXCEPT !.called = @ + 1,
              !.state = IF d.resolver.how = "return" THEN "fulfilled"
                        ELSE IF d.resolver.how = "throw" THEN "rejected"
                        ELSE "pending",
              !.reason = IF d.resolver.how = "throw" THEN d.resolver.reason ELSE NoReason]

\* a `cached` that is no once(): the resolver is called at every consumption
cachedEveryTime(d) == invoke(d)

\* cached(): once(() => new Promise(...)), the promise made at the first call
cached(d) == IF d.called = 0 THEN invoke(d) ELSE d

\* what a consumer of a settled thenable is handed
Outcome(d) == [state |-> d.state, reason |-> d.reason]

\* then(onFulfilled, onRejected) and catch(onRejected): cached().then(...);
\* the consumer is served at once when the promise is settled already
consume(d) ==
    LET c == cached(d)
    IN [c EXCEPT !.consumed = @ + 1,
                 !.seen = IF c.state = "pending" THEN @ ELSE Append(@, Outcome(c))]

\* an asCallback that keeps done for later and consumes nothing
asCallbackLazy(d, hasDone) ==
    IF ~hasDone THEN [d EXCEPT !.plain = @ + 1]
    ELSE [d EXCEPT !.dones = @ + 1]

\* asCallback(done): `this` when done is absent, else this.then(() => done(), done):
\* done is called without argument on success, with the reason on failure
asCallback(d, hasDone) ==
    IF ~hasDone THEN [d EXCEPT !.plain = @ + 1]
    ELSE LET c == consume(d)
         IN [c EXCEPT !.dones = @ + 1,
                      !.done = IF c.state = "pending" THEN @ ELSE Append(@, Outcome(c))]

\* what asCallback returns: the thenable itself, or undefined
asCallbackReturns(hasDone) == IF hasDone THEN "undefined" ELSE "this"

\* the promise a resolver returned settles: every consumer waiting is served
settle(d) ==
    LET s == [d EXCEPT !.state = IF d.resolver.how = "resolve" THEN "fulfilled" ELSE "rejected",
                       !.reason = IF d.resolver.how = "resolve" THEN NoReason
                                  ELSE d.resolver.reason]
        waiting == d.consumed - Len(d.seen)
        waitingDone == d.dones - Len(d.done)
    IN [s EXCEPT !.seen = @ \o [i \in 1..waiting |-> Outcome(s)],
                 !.done = @ \o [i \in 1..waitingDone |-> Outcome(s)]]

\* failures.concat(err): an array argument is spread, anything else appended
concat(failures, err) ==
    IF err.t = "array" THEN failures \o [i \in 1..Len(err.items) |-> Err(err.items[i])]
    ELSE Append(failures, err)

\* new MultipleError(errors): errors.map(e => e.stack) throws a TypeError on
\* an entry that is undefined
MultipleError(errors) ==
    IF \E i \in 1..Len(errors) : errors[i].t = "undefined"
    THEN [error |-> "TypeError", errors |-> << >>]
    ELSE [error |-> "MultipleError", errors |-> errors]

\* a run that goes on to the next thenable after a failed one
runAfterIgnoringFailure(chain, d) ==
    IF chain.pos = Len(chain.list) THEN [chain EXCEPT !.state = "fulfilled"]
    ELSE [chain EXCEPT !.pos = @ + 1]

\* run: chain.then(() => thenable), once the thenable at `pos` is settled
\* as d: a rejection rejects the chain, which skips the callbacks left
runAfter(chain, d) ==
    IF d.state = "rejected"
    THEN [chain EXCEPT !.state = "rejected", !.reason = d.reason]
    ELSE IF chain.pos = Len(chain.list) THEN [chain EXCEPT !.state = "fulfilled"]
    ELSE [chain EXCEPT !.pos = @ + 1]

\* all: thenable.then(() => failures, err => failures.concat(err)), then the
\* next thenable, or the final callback on the failures collected
allAfter(chain, d) ==
    LET failures == IF d.state = "rejected" THEN concat(chain.failures, d.reason)
                    ELSE chain.failures
        c == [chain EXCEPT !.failures = failures]
    IN IF chain.pos < Len(chain.list) THEN [c EXCEPT !.pos = @ + 1]
       ELSE IF Len(failures) = 0 THEN [c EXCEPT !.state = "fulfilled"]
       ELSE [c EXCEPT !.state = "rejected",
                      !.error = MultipleError(failures).error,
                      !.errors = MultipleError(failures).errors]

\* run(...thenables) and all(...thenables): the reduce builds the chain on
\* Promise.resolve(), no thenable is consumed yet
startChain(kind, list) ==
    [NoChain EXCEPT !.kind = kind, !.list = list, !.state = "pending"]

----------------------------------------------------------------------------
(* src/context.js: running a context (chain, then, catch) on a stub driver *)

\* a failure that is no Error: an object with a toString and no stack
NoStack == [t |-> "object", name |-> "some error with no stack", items |-> << >>]

\* a stub driver's exec(ctx): the call is recorded; the stub returns a value,
\* throws, or returns a promise that is settled later
stubExec(st, c, b) ==
    [st EXCEPT !.execs = Append(@, [ctx |-> c, how |-> b.how, reason |-> b.reason,
                                    state |-> IF b.how \in {"resolve", "reject"}
                                              THEN "pending" ELSE "done"])]

\* the callback a settled promise calls: then(onFulfilled, onRejected) calls
\* one of the two, catch(onRejected) calls its callback on a rejection only
callback(m, state) ==
    IF m = "then" /\ state = "fulfilled" THEN "onFulfilled"
    ELSE IF m \in {"then", "catch"} /\ state = "rejected" THEN "onRejected"
    ELSE ""

\* a chain that hands the driver's result to Promise.resolve: a throw of the
\* driver reaches the caller
chainUnwrapped(st, c, b) ==
    [stub |-> stubExec(st, c, b),
     run |-> [m |-> "chain", ctx |-> c, exec |-> Len(st.execs) + 1,
              threw |-> b.how = "throw",
              state |-> IF b.how = "return" THEN "fulfilled"
                        ELSE IF b.how = "throw" THEN "none" ELSE "pending",
              reason |-> NoReason, called |-> "", arg |-> NoReason]]

\* chain(): new Promise(resolve => resolve(this.driver.exec(this))); exec is
\* called in the executor, which turns a throw into a rejection
chain(st, c, b) ==
    [stub |-> stubExec(st, c, b),
     run |-> [m |-> "chain", ctx |-> c, exec |-> Len(st.execs) + 1,
              threw |-> FALSE,
              state |-> IF b.how = "return" THEN "fulfilled"
                        ELSE IF b.how = "throw" THEN "rejected" ELSE "pending",
              reason |-> IF b.how = "throw" THEN b.reason ELSE NoReason,
              called |-> "", arg |-> NoReason]]

\* the callbacks of then or catch are attached to the promise of chain(): a
\* promise settled already calls its callback
attach(r, m) ==
    IF r.run.threw THEN r
    ELSE [r EXCEPT !.run.m = m,
                   !.run.called = callback(m, r.run.state),
                   !.run.arg = r.run.reason]

\* then(onFulfilled, onRejected): this.chain().then(onFulfilled, onRejected)
then(st, c, b) == attach(chain(st, c, b), "then")

\* catch(onRejected): this.chain().catch(onRejected)
catch(st, c, b) == attach(chain(st, c, b), "catch")

\* the promise the driver returned for exec e settles: the promise of a
\* chain() that was resolved with it follows, and calls its callback
follow(run, e) ==
    LET state == IF e.how = "resolve" THEN "fulfilled" ELSE "rejected"
        reason == IF e.how = "resolve" THEN NoReason ELSE e.reason
    IN [run EXCEPT !.state = state, !.reason = reason,
                   !.called = callback(run.m, state), !.arg = reason]

----------------------------------------------------------------------------
(* src/drivers/simulated.js, and targaryen as the driver uses it *)

\* let ID_COUNT = 0; no exec call made
SimInit == [ID_COUNT |-> 0, runs |-> << >>]

Digits == <<"0", "1", "2", "3", "4", "5", "6", "7", "8", "9">>

\* a generator that hands out one key over and over
defaultUniqIDConstant(n) == <<"-", "-", "0", "0", "-", "-">>

\* defaultUniqID(): `--firebase-test-id-${ID_COUNT++}--`, the key for count n
defaultUniqID(n) == <<"-", "-", Digits[((n \div 10) % 10) + 1], Digits[(n % 10) + 1], "-", "-">>

RECURSIVE SplitAt(_, _)
\* the segments of a path string, `cur` being the segment read so far
SplitAt(str, cur) ==
    IF str = << >> THEN (IF cur = << >> THEN << >> ELSE <<cur>>)
    ELSE IF Head(str) = "/"
    THEN (IF cur = << >> THEN << >> ELSE <<cur>>) \o SplitAt(Tail(str), << >>)
    ELSE SplitAt(Tail(str), Append(cur, Head(str)))

\* a database location: the non-empty segments of the path
Location(path) == SplitAt(path, << >>)

IsPrefix(a, b) == Len(a) <= Len(b) /\ SubSeq(b, 1, Len(a)) = a

\* the data of a seed, as a set of leaves [path, value]
SeedData(seed) ==
    IF seed = "s1" THEN {[path |-> << <<"s">> >>, value |-> "v0"]} ELSE {}

\* targaryen.store(seed)
store(seed) == SeedData(seed)

\* the children a patch value names, for update
PatchChildren(patch) ==
    IF patch = "p1" THEN {[key |-> <<"x">>, value |-> "v1"], [key |-> <<"y">>, value |-> "v2"]}
    ELSE {}

\* data after a value is written at a location; null removes
writeData(data, loc, value) ==
    {l \in data : ~IsPrefix(loc, l.path) /\ ~IsPrefix(l.path, loc)}
        \cup (IF value \in {Null, Undefined} THEN {} ELSE {[path |-> loc, value |-> value]})

RECURSIVE patchData(_, _, _)
\* data after each child of a patch is written under a location
patchData(data, loc, children) ==
    IF children = {} THEN data
    ELSE LET c == CHOOSE c \in children : TRUE
         IN patchData(writeData(data, Append(loc, c.key), c.value), loc, children \ {c})

\* the rule sets of the simulated contexts, evaluated as targaryen does:
\*   open       {'.read': true, '.write': true}
\*   ifAbsent   {'.read': false, '.write': 'data.exists() == false'}
\*   aliceOnly  {'.read': 'auth.uid == "alice"', '.write': 'auth.uid == "alice"'}
allowed(rules, kind, auth, data) ==
    IF rules = "open" THEN TRUE
    ELSE IF rules = "ifAbsent" THEN kind # "read" /\ data = {}
    ELSE IF rules = "aliceOnly" THEN ~auth.nil /\ auth.uid = "alice"
    ELSE FALSE

NoDb == [none |-> TRUE, rules |-> "", data |-> {}, auth |-> NullAuth, debug |-> FALSE]

\* targaryen.database(ruleset, data)
database(rules, data) ==
    [none |-> FALSE, rules |-> rules, data |-> data, auth |-> NullAuth, debug |-> FALSE]

\* db.read(path): a result without newDatabase
dbRead(db, path) ==
    [allowed |-> allowed(db.rules, "read", db.auth, db.data),
     info |-> <<"read", path, db.auth>>,
     database |-> db, newDatabase |-> NoDb]

\* db.write(path, value)
dbWrite(db, path, value) ==
    [allowed |-> allowed(db.rules, "write", db.auth, db.data),
     info |-> <<"write", path, db.auth>>,
     database |-> db,
     newDatabase |-> [db EXCEPT !.data = writeData(db.data, Location(path), value)]]

\* db.update(path, patch)
dbUpdate(db, path, patch) ==
    [allowed |-> allowed(db.rules, "write", db.auth, db.data),
     info |-> <<"update", path, db.auth>>,
     database |-> db,
     newDatabase |-> [db EXCEPT !.data = patchData(db.data, Location(path),
                                                    PatchChildren(patch))]]

\* an assertAllowed that hands back the database the operation started from
assertAllowedKeepsOld(result, debug) ==
    [logged |-> debug,
     log |-> IF debug THEN <<result.info>> ELSE << >>,
     threw |-> result.allowed # TRUE,
     db |-> result.database]

\* an assertAllowed that lets a denied operation through
assertAllowedNeverThrows(result, debug) ==
    [logged |-> debug,
     log |-> IF debug THEN <<result.info>> ELSE << >>,
     threw |-> FALSE,
     db |-> IF result.newDatabase.none THEN result.database ELSE result.newDatabase]

\* an assertAllowed that checks first and logs what was allowed
assertAllowedChecksFirst(result, debug) ==
    [logged |-> debug /\ result.allowed = TRUE,
     log |-> IF debug /\ result.allowed = TRUE THEN <<result.info>> ELSE << >>,
     threw |-> result.allowed # TRUE,
     db |-> IF result.newDatabase.none THEN result.database ELSE result.newDatabase]

\* assertAllowed(result, {debug, log}): log if debug, throw unless allowed,
\* return result.newDatabase, or result.database when there is none;
\* `log` is what the logger was called with, one entry per call
assertAllowed(result, debug) ==
    [logged |-> debug,
     log |-> IF debug THEN <<result.info>> ELSE << >>,
     threw |-> result.allowed # TRUE,
     db |-> IF result.newDatabase.none THEN result.database ELSE result.newDatabase]

\* the cases of the switch of exec
SimOps == {"get", "push", "set", "update"}

\* the reduce callback of exec for operation k: the accumulator afterwards.
\* acc: [db, count (ID_COUNT), trace, threw]
simStep(acc, operation, k) ==
    LET debug == operation.options.debug = "T"
        db == [acc.db EXCEPT !.auth = operation.auth, !.debug = debug]
        isPush == operation.op = "push"
        key == IF isPush THEN defaultUniqID(acc.count) ELSE << >>
        count == IF isPush THEN acc.count + 1 ELSE acc.count
        childPath == join(<<Str(operation.path), Str(key)>>)
        result == IF operation.op = "get" THEN dbRead(db, operation.path)
                  ELSE IF isPush THEN dbWrite(db, childPath, operation.value)
                  ELSE IF operation.op = "set" THEN dbWrite(db, operation.path, operation.value)
                  ELSE dbUpdate(db, operation.path, operation.value)
        known == operation.op \in SimOps
        a == assertAllowed(result, debug)
        entry == [k |-> k, op |-> operation.op, auth |-> db.auth,
                  before |-> acc.db.data,
                  checked |-> known,
                  key |-> key,
                  logged |-> known /\ a.logged,
                  info |-> IF known THEN result.info ELSE << >>,
                  log |-> IF known THEN a.log ELSE << >>,
                  allowed |-> known /\ ~a.threw,
                  after |-> IF known /\ ~a.threw THEN a.db.data ELSE acc.db.data]
    IN [db |-> IF known /\ ~a.threw THEN a.db ELSE acc.db,
        count |-> count,
        trace |-> Append(acc.trace, entry),
        threw |-> ~known \/ a.threw]

RECURSIVE simReduce(_, _, _)
\* ops.reduce(callback, initialDb) from operation k on; a throw ends it
simReduce(acc, ops, k) ==
    IF k > Len(ops) \/ acc.threw THEN acc
    ELSE simReduce(simStep(acc, ops[k], k), ops, k + 1)

\* an exec that takes the operations off the log as it evaluates them
execShiftingOps(h, c) == [h EXCEPT !.arrs[h.ctxs[c].ops] = << >>]

\* what exec(ctx) leaves of the heap: `const {seed, ops} = ctx`, ctx[rulesetKey]
\* and ops.reduce read the context, nothing is assigned to it or to its log
simExecHeap(h, c) == h

NoSnapshot == {[path |-> << >>, value |-> "no value returned"]}

\* SimulatedDriver.exec(ctx) with ID_COUNT = count: what the call returns or
\* throws, the operations it evaluated, and ID_COUNT afterwards
simExec(h, c, count) ==
    LET ops == opsOf(h, c)
        data == store(seedOf(h, c))
        initialDb == [database(rulesOf(h, c), data) EXCEPT !.debug = TRUE]
        acc == simReduce([db |-> initialDb, count |-> count, trace |-> << >>,
                          threw |-> FALSE], ops, 1)
    IN [ctx |-> c,
        outcome |-> IF acc.threw THEN "threw" ELSE "returned",
        at |-> IF acc.threw THEN Len(acc.trace) ELSE 0,
        value |-> IF acc.threw THEN NoSnapshot ELSE acc.db.data,
        trace |-> acc.trace,
        count |-> acc.count]

----------------------------------------------------------------------------
(* Chain calls made by a test author, on any context built so far *)

Seeds == {"s1"}
Rules == {"R1", "R2"}

PathA == Str(<<" ", "/", "a", "/">>)                  \* ' /a/'
PathB == Arr(<< <<"a">>, <<"/", "b", "/">> >>)        \* ['a', '/b/']

\* (paths, value, options) of a call; an Undefined value is an omitted argument
ChainArgs ==
    { [paths |-> PathA, value |-> Undefined, options |-> NoOptions],
      [paths |-> PathB, value |-> "v1", options |-> DebugOptions] }

\* (uid, opts) of as(uid, opts); an empty uid is a falsy one
AsArgs ==
    { [uid |-> "alice", opts |-> [role |-> ""]],
      [uid |-> "bob", opts |-> [role |-> "admin", uid |-> "eve"]],
      [uid |-> "", opts |-> [role |-> "admin", uid |-> "eve"]] }

ForkOpts ==
    { NoOpts,
      [hasAuth |-> TRUE, auth |-> AuthObj("bob", ""), hasSeed |-> TRUE, seed |-> "s1"] }

AppendMethods == {"get", "set", "update", "push", "remove"}

Ctxs == 1..Len(heap.ctxs)

Call(m, this, h, hasAuth, auth, seed) ==
    /\ Len(heap.ctxs) < MaxCtx
    /\ heap' = h
    /\ calls' = Append(calls, [m |-> m, on |-> this, hasAuth |-> hasAuth,
                               auth |-> auth, seed |-> seed])
    /\ UNCHANGED <<nexec, execs, sequences, rulesRequests, remote, jobs, sim, defer, Harness>>

CallFork(c, opts) ==
    Call("fork", c, fork(heap, c, opts), opts.hasAuth, opts.auth, opts.seed)

CallStartWith(c, seed) ==
    Call("startWith", c, startWith(heap, c, seed), FALSE, NullAuth, seed)

CallAs(c, uid, opts) ==
    Call("as", c, as(heap, c, uid, opts), TRUE,
         IF uid = "" THEN NullAuth ELSE AuthObj(uid, opts.role), Null)

CallAsGuest(c) == Call("asGuest", c, asGuest(heap, c), TRUE, NullAuth, Null)

CallGet(c, a) ==
    Call("get", c, get(heap, c, a.paths, a.options), FALSE, NullAuth, Null)

CallSet(c, a) ==
    Call("set", c, set(heap, c, a.paths, a.value, a.options), FALSE, NullAuth, Null)

CallUpdate(c, a) ==
    Call("update", c, update(heap, c, a.paths, a.value, a.options), FALSE, NullAuth, Null)

CallPush(c, a) ==
    Call("push", c, push(heap, c, a.paths, a.value, a.options), FALSE, NullAuth, Null)

CallRemove(c, a) ==
    Call("remove", c, remove(heap, c, a.paths, a.options), FALSE, NullAuth, Null)

InitCtx ==
    /\ heap = create(EmptyHeap, "R1", "live")
    /\ calls = << [m |-> "create", on |-> 0, hasAuth |-> TRUE, auth |-> NullAuth,
                   seed |-> Null] >>
    /\ nexec = 0
    /\ execs = << >>
    /\ sequences = 0
    /\ rulesRequests = 0
    /\ remote = NoRuleset
    /\ jobs = << >>
    /\ sim = SimInit
    /\ defer = DeferInit
    /\ created = << >>
    /\ stub = StubInit
    /\ runs = << >>
    /\ asserts = << >>
    /\ pathCall = NoPathCall
    /\ legacy = LegacyInit

NextCtx ==
    \E c \in Ctxs :
        \/ \E opts \in ForkOpts : CallFork(c, opts)
        \/ \E seed \in Seeds : CallStartWith(c, seed)
        \/ \E a \in AsArgs : CallAs(c, a.uid, a.opts)
        \/ CallAsGuest(c)
        \/ \E a \in ChainArgs :
              \/ CallGet(c, a)
              \/ CallSet(c, a)
              \/ CallUpdate(c, a)
              \/ CallPush(c, a)
              \/ CallRemove(c, a)

SpecCtx == InitCtx /\ [][NextCtx]_vars

----------------------------------------------------------------------------
(* src/drivers/live.js: tokens *)

\* admin auth data
adminAuth == AuthObj("DB Admin", "")

NoToken == [n |-> 0, auth |-> NullAuth, opts |-> ""]

\* generator.createToken(auth, opts): the n-th token this exec generates
createToken(auth, opts, n) == [n |-> n, auth |-> auth, opts |-> opts]

\* a key made of the identity alone
TokenKeyOfAuth(auth, opts) == <<auth, "">>

\* hash({auth, opts}): equal exactly for equal content
TokenKey(auth, opts) == <<auth, opts>>

\* a Tokens.get that never finds its key: a token generated at every call
TokensPutUncached(tokens, auth, opts) ==
    Append(tokens, [key |-> TokenKey(auth, opts),
                    token |-> createToken(auth, opts, Len(tokens) + 1)])

\* Tokens.get(auth, opts) on the cache `tokens`, a sequence of [key, token]:
\* the cache afterwards
TokensPut(tokens, auth, opts) ==
    IF \E i \in 1..Len(tokens) : tokens[i].key = TokenKey(auth, opts)
    THEN tokens
    ELSE Append(tokens, [key |-> TokenKey(auth, opts),
                         token |-> createToken(auth, opts, Len(tokens) + 1)])

\* Tokens.get(auth, opts): the token returned
TokensGet(tokens, auth, opts) ==
    LET t == TokensPut(tokens, auth, opts)
        i == CHOOSE i \in 1..Len(t) : t[i].key = TokenKey(auth, opts)
    IN t[i].token

\* {debug = false} of an operation's options, as token options
DebugOpts(options) == IF options.debug = "T" THEN "debug:true" ELSE "debug:false"

\* {silent = true} of an operation's options
SilentOf(options) == IF options.silent = "F" THEN FALSE ELSE TRUE

KnownOps == {"get", "push", "set", "update"}

\* the body of the reduce callback of runOps for one operation: the request
\* its closure will issue, the token being taken from the cache right away
OpRequest(tokens, operation) ==
    LET auth == IF operation.auth.nil THEN NoToken
                ELSE TokensGet(tokens, operation.auth, DebugOpts(operation.options))
    IN IF operation.op = "get"
       THEN [kind |-> "get", paths |-> operation.path, payload |-> Undefined,
             auth |-> auth, silent |-> SilentOf(operation.options)]
       ELSE IF operation.op \in KnownOps
       THEN [kind |-> operation.op, paths |-> operation.path,
             payload |-> operation.value, auth |-> auth, silent |-> TRUE]
       ELSE [kind |-> "unknown", paths |-> operation.path, payload |-> Undefined,
             auth |-> auth, silent |-> TRUE]

RECURSIVE OpRequests(_, _)
\* ops.reduce(...): the requests of the whole log, in log order, with the
\* token cache threaded through
OpRequests(tokens, ops) ==
    IF ops = << >> THEN << >>
    ELSE LET operation == Head(ops)
             t == IF operation.auth.nil THEN tokens
                  ELSE TokensPut(tokens, operation.auth, DebugOpts(operation.options))
         IN <<OpRequest(tokens, operation)>> \o OpRequests(t, Tail(ops))

\* generator.createToken(auth, opts) throws: the generator refuses an
\* identity that carries no uid
createTokenThrows(auth) == ~auth.nil /\ auth.uid = ""

\* the first operation of the log whose token generation throws, 0 if none
ThrowingOp(ops) ==
    LET bad == {i \in 1..Len(ops) : createTokenThrows(ops[i].auth)}
    IN IF bad = {} THEN 0 ELSE CHOOSE i \in bad : \A j \in bad : i <= j

RECURSIVE TokensAfter(_, _)
\* the token cache once the reduce of runOps is over, or has thrown
TokensAfter(tokens, ops) ==
    IF ops = << >> THEN tokens
    ELSE LET operation == Head(ops)
         IN IF operation.auth.nil THEN TokensAfter(tokens, Tail(ops))
            ELSE IF createTokenThrows(operation.auth) THEN tokens
            ELSE TokensAfter(TokensPut(tokens, operation.auth,
                                       DebugOpts(operation.options)), Tail(ops))

\* new Tokens(generator), then tokens.get(adminAuth, {admin: true})
AdminTokens == TokensPut(<< >>, adminAuth, "admin")

adminToken == TokensGet(<< >>, adminAuth, "admin")

\* client.set({paths: '', payload: seed, auth: adminToken, silent: true})
SeedRequest(seed) ==
    [kind |-> "set", paths |-> << >>, payload |-> seed, auth |-> adminToken,
     silent |-> TRUE]

\* client.rules({rules, secret})
RulesRequest(rules) ==
    [kind |-> "rules", paths |-> << >>, payload |-> rules, auth |-> NoToken,
     silent |-> TRUE]

\* hash(rules): equal exactly for equal rule sets
Hash(rules) == rules

----------------------------------------------------------------------------
(* src/drivers/live.js: exec, runOps, deployRules, lock *)

Execs == 1..nexec

\* the live state a step works on
Live == [execs |-> execs, jobs |-> jobs, sequences |-> sequences,
         rulesRequests |-> rulesRequests, remote |-> remote, heap |-> heap]

\* the promise kept in `sequences` for exec d, result.then(noop, noop), is settled
SequenceSettled(S, d) == d = 0 \/ S.execs[d].result # "pending"

\* the promise kept in `rulesRequests` for exec d is settled
CacheSettled(S, d) == d = 0 \/ S.execs[d].rules \in {"ok", "fail"}

\* a cache that keeps the new hash whether or not the deployment succeeded
CacheValuePoisoned(S, d) ==
    IF d = 0 THEN Undefined ELSE Hash(S.execs[d].ruleset)

\* its value: request.then(() => newRuleHash, () => oldRulesHash)
CacheValue(S, d) ==
    IF d = 0 THEN Undefined
    ELSE IF S.execs[d].rules = "ok" THEN Hash(S.execs[d].ruleset)
    ELSE S.execs[d].oldHash

\* the members of `ids`, in increasing order of key[id]
RECURSIVE Sorted(_, _)
Sorted(ids, key) ==
    IF ids = {} THEN << >>
    ELSE LET m == CHOOSE x \in ids : \A y \in ids : key[x] <= key[y]
         IN <<m>> \o Sorted(ids \ {m}, key)

\* a lock chained on the result itself: a rejected sequence rejects the
\* calls waiting for it, whose callbacks never run
SettleRejectsWaiters(S, e, outcome, error) ==
    LET ex == [S.execs EXCEPT ![e].result = outcome, ![e].error = error]
        waiting == {w \in DOMAIN ex : ex[w].lock = "wait" /\ ex[w].lastSequence = e}
        order == Sorted(waiting, [w \in waiting |-> w])
    IN IF outcome = "rejected"
       THEN [S EXCEPT
               !.execs = [w \in DOMAIN ex |->
                            IF w \in waiting
                            THEN [ex[w] EXCEPT !.lock = "never", !.result = "rejected",
                                               !.error = error]
                            ELSE ex[w]]]
       ELSE [S EXCEPT
               !.execs = [w \in DOMAIN ex |->
                            IF w \in waiting THEN [ex[w] EXCEPT !.lock = "job"] ELSE ex[w]],
               !.jobs = S.jobs \o [i \in 1..Len(order) |-> [k |-> "lock", e |-> order[i]]]]

\* the result promise of exec e settles: the then-callbacks of lock() that
\* wait for it become jobs, in the order the exec calls were made
Settle(S, e, outcome, error) ==
    LET ex == [S.execs EXCEPT ![e].result = outcome, ![e].error = error]
        waiting == {w \in DOMAIN ex : ex[w].lock = "wait" /\ ex[w].lastSequence = e}
        order == Sorted(waiting, [w \in waiting |-> w])
    IN [S EXCEPT
          !.execs = [w \in DOMAIN ex |->
                       IF w \in waiting THEN [ex[w] EXCEPT !.lock = "job"] ELSE ex[w]],
          !.jobs = S.jobs \o [i \in 1..Len(order) |-> [k |-> "lock", e |-> order[i]]]]

NoError == [what |-> "", k |-> 0]
Failure(what, k) == [what |-> what, k |-> k]

Sent(what, k, req) == [what |-> what, k |-> k, req |-> req]

\* every request from operation k on issued at once, none awaiting the one before
IssueUnchained(S, e, k) ==
    LET x == S.execs[e]
        n == Len(x.plan)
    IN IF k > n THEN Settle(S, e, "fulfilled", NoError)
       ELSE [S EXCEPT !.execs[e].op = n,
                      !.execs[e].flying = @ \cup (k..n),
                      !.execs[e].sent =
                          @ \o [i \in 1..(n - k + 1) |-> Sent("op", k + i - 1, x.plan[k + i - 1])]]

\* a closure that hands every operation to the client, whatever its kind
IssueOpAnyKind(S, e, k) ==
    LET x == S.execs[e]
    IN IF k > Len(x.plan) THEN Settle(S, e, "fulfilled", NoError)
       ELSE [S EXCEPT !.execs[e].op = k,
                      !.execs[e].flying = @ \cup {k},
                      !.execs[e].sent = Append(@, Sent("op", k, x.plan[k]))]

\* the closure chained for operation k runs: an unknown operation rejects
\* without a request, any other issues its request; past the last operation
\* the chain, and so the result, is fulfilled
IssueOp(S, e, k) ==
    LET x == S.execs[e]
    IN IF k > Len(x.plan) THEN Settle(S, e, "fulfilled", NoError)
       ELSE IF x.plan[k].kind = "unknown"
       THEN Settle(S, e, "rejected", Failure("unknown", k))
       ELSE [S EXCEPT !.execs[e].op = k,
                      !.execs[e].flying = @ \cup {k},
                      !.execs[e].sent = Append(@, Sent("op", k, x.plan[k]))]

\* a setup that waits for the seed write only
SetupSeedOnly(S, e) ==
    LET x == S.execs[e]
    IN IF x.result # "pending" \/ x.op # 0 THEN S
       ELSE IF x.rules = "fail" THEN Settle(S, e, "rejected", Failure("rules", 0))
       ELSE IF x.seed = "fail" THEN Settle(S, e, "rejected", Failure("seed", 0))
       ELSE IF x.seed = "ok" THEN IssueOp(S, e, 1)
       ELSE S

\* Promise.all([deployRules(...), client.set(...)]) after one of the two
\* changed: rejected by the first failure, fulfilled when both succeeded
Setup(S, e) ==
    LET x == S.execs[e]
    IN IF x.result # "pending" \/ x.op # 0 THEN S
       ELSE IF x.rules = "fail" THEN Settle(S, e, "rejected", Failure("rules", 0))
       ELSE IF x.seed = "fail" THEN Settle(S, e, "rejected", Failure("seed", 0))
       ELSE IF x.rules \in {"ok", "skip"} /\ x.seed = "ok" THEN IssueOp(S, e, 1)
       ELSE S

\* the cache promise of exec d settles: the then-callbacks of deployRules
\* that wait for it become jobs, in the order they were registered
CacheSettles(S, d) ==
    LET waiting == {w \in DOMAIN S.execs :
                       S.execs[w].rules = "wait" /\ S.execs[w].lastRequest = d}
        order == Sorted(waiting, [w \in waiting |-> S.execs[w].started])
    IN [S EXCEPT
          !.execs = [w \in DOMAIN S.execs |->
                       IF w \in waiting THEN [S.execs[w] EXCEPT !.rules = "job"]
                       ELSE S.execs[w]],
          !.jobs = S.jobs \o [i \in 1..Len(order) |-> [k |-> "deploy", e |-> order[i]]]]

\* lock(client, sequence), first half: read the last sequence and chain on it
lockRead(S) == S.sequences

\* exec(ctx): lock(this.client, () => this.runOps(ctx))
exec(S, h, c) ==
    LET e == Len(S.execs) + 1
        lastSequence == lockRead(S)
        ready == SequenceSettled(S, lastSequence)
        x == [ctx |-> c, ruleset |-> rulesOf(h, c),
              lastSequence |-> lastSequence,
              lock |-> IF ready THEN "job" ELSE "wait",
              started |-> 0, result |-> "pending", error |-> NoError,
              tokens |-> << >>, plan |-> << >>,
              seed |-> "none", rules |-> "none", lastRequest |-> 0,
              oldHash |-> Undefined,
              op |-> 0, flying |-> {}, okOps |-> {}, failedOps |-> {},
              sent |-> << >>, cachedAtCall |-> Undefined, onTarget |-> NoRuleset]
    IN [S EXCEPT !.execs = Append(@, x),
                 !.jobs = IF ready THEN Append(@, [k |-> "lock", e |-> e]) ELSE @]

\* deployRules, first half: read the cache and chain on the promise found
deployRules(S, e) ==
    LET lastRequest == S.rulesRequests
        ready == CacheSettled(S, lastRequest)
    IN [S EXCEPT !.execs[e].lastRequest = lastRequest,
                 !.execs[e].rules = IF ready THEN "job" ELSE "wait",
                 !.jobs = IF ready THEN Append(@, [k |-> "deploy", e |-> e]) ELSE @]

\* what runOps(ctx) leaves of the heap: `const {ops, seed, rules} = ctx` and
\* ops.reduce read the context, nothing is assigned to it or to its log
runOpsHeap(h, c) == h

\* runOps(ctx): the admin token, deployRules, the seed request, then the
\* reduce that takes each operation's token and chains its closure; a token
\* generation that throws makes runOps throw, the seed request being out
runOps(S, h, e) ==
    LET c == S.execs[e].ctx
        ops == opsOf(h, c)
        t == ThrowingOp(ops)
        S1 == deployRules(S, e)
        S2 == [S1 EXCEPT
                 !.heap = runOpsHeap(h, c),
                 !.execs[e].tokens = TokensAfter(AdminTokens, ops),
                 !.execs[e].seed = "inflight",
                 !.execs[e].sent = Append(@, Sent("seed", 0, SeedRequest(seedOf(h, c))))]
    IN IF t = 0
       THEN [S2 EXCEPT !.execs[e].plan = OpRequests(AdminTokens, ops)]
       ELSE [S2 EXCEPT !.execs[e].result = "rejected",
                       !.execs[e].error = Failure("token", t)]

\* lock, second half (the then-callback): run the sequence and remember it;
\* when sequence() throws, sequences.set is not reached
lock(S, h, e) ==
    LET n == Cardinality({d \in DOMAIN S.execs : S.execs[d].started > 0})
        S1 == [S EXCEPT !.execs[e].lock = "run", !.execs[e].started = n + 1]
        S2 == runOps(S1, h, e)
    IN IF S2.execs[e].result = "rejected" THEN S2
       ELSE [S2 EXCEPT !.sequences = e]

\* a deployment made without looking at the cached hash
DeployAlways(S, e) ==
    LET x == S.execs[e]
    IN [S EXCEPT !.execs[e].rules = "inflight",
                 !.execs[e].oldHash = CacheValue(S, x.lastRequest),
                 !.execs[e].sent = Append(@, Sent("rules", 0, RulesRequest(x.ruleset))),
                 !.rulesRequests = e]

\* deployRules, second half (the then-callback)
deployCallback(S, e) ==
    LET x == S.execs[e]
        oldRulesHash == CacheValue(S, x.lastRequest)
        newRuleHash == Hash(x.ruleset)
    IN IF oldRulesHash = newRuleHash
       THEN Setup([S EXCEPT !.execs[e].rules = "skip",
                            !.execs[e].onTarget = S.remote], e)
       ELSE [S EXCEPT !.execs[e].rules = "inflight",
                      !.execs[e].oldHash = oldRulesHash,
                      !.execs[e].sent = Append(@, Sent("rules", 0, RulesRequest(x.ruleset))),
                      !.rulesRequests = e]

\* the remote database answers a rules request: a request that succeeds
\* has replaced the rules installed there, a request that fails has not
installRules(S, e, ok) ==
    IF ok THEN [S EXCEPT !.remote = S.execs[e].ruleset] ELSE S

\* the rules request of exec e completes
rulesDone(S, e, ok) ==
    LET S1 == installRules(S, e, ok)
    IN Setup(CacheSettles([S1 EXCEPT !.execs[e].rules = IF ok THEN "ok" ELSE "fail"], e), e)

\* the seed request of exec e completes
seedDone(S, e, ok) ==
    Setup([S EXCEPT !.execs[e].seed = IF ok THEN "ok" ELSE "fail"], e)

\* a chain that goes on to the next closure after a failed request as well
opDoneContinues(S, e, k, ok) ==
    LET S1 == [S EXCEPT !.execs[e].flying = @ \ {k},
                        !.execs[e].okOps = IF ok THEN @ \cup {k} ELSE @,
                        !.execs[e].failedOps = IF ok THEN @ ELSE @ \cup {k}]
    IN IF S.execs[e].result # "pending" THEN S1 ELSE IssueOp(S1, e, k + 1)

\* the request of operation k of exec e completes: the chain goes on to the
\* next closure, or is rejected and skips every closure left
opDone(S, e, k, ok) ==
    LET S1 == [S EXCEPT !.execs[e].flying = @ \ {k},
                        !.execs[e].okOps = IF ok THEN @ \cup {k} ELSE @,
                        !.execs[e].failedOps = IF ok THEN @ ELSE @ \cup {k}]
    IN IF S.execs[e].result # "pending" THEN S1
       ELSE IF ok THEN IssueOp(S1, e, k + 1)
       ELSE Settle(S1, e, "rejected", Failure("op", k))

----------------------------------------------------------------------------
(* The live specification: exec calls on contexts built through the chain, *)
(* promise jobs run oldest first, requests complete when no job is left    *)

\* create(R1).update(['a','/b/'], v1).startWith(s1).as(alice).set(' /a/', v1).as(bob).get(['a','/b/'], debug)
\* and create(R2).push(' /a/')
LiveHeap ==
    LET h1 == create(EmptyHeap, "R1", "live")
        h2 == update(h1, 1, PathB, "v1", NoOptions)
        h3 == startWith(h2, 2, "s1")
        h4 == as(h3, 3, "alice", [role |-> ""])
        h5 == set(h4, 4, PathA, "v1", NoOptions)
        h6 == as(h5, 5, "bob", [role |-> ""])
        h7 == get(h6, 6, PathB, DebugOptions)
        h8 == create(h7, "R2", "live")
        h9 == push(h8, 8, PathA, Undefined, NoOptions)
        \* 11: create(R1).fork({auth: {role}}).get(' /a/'), an identity without uid
        h10 == fork(h9, 1, [NoOpts EXCEPT !.hasAuth = TRUE, !.auth = AuthObj("", "user")])
        h11 == get(h10, 10, PathA, NoOptions)
        \* 14: create(R1).set(' /a/', v1).append({op: 'foo'}).get(['a','/b/'])
        h12 == set(h11, 1, PathA, "v1", NoOptions)
        h13 == append(h12, 12, "foo", PathA, Undefined, NoOptions)
        h14 == get(h13, 13, PathB, NoOptions)
        \* 20: create(R1).as(bob).get.get.get(debug).as(alice).get.asGuest().get
        h15 == as(h14, 1, "bob", [role |-> ""])
        h16 == get(h15, 15, PathA, NoOptions)
        h17 == get(h16, 16, PathB, NoOptions)
        h18 == get(h17, 17, PathA, DebugOptions)
        h19 == as(h18, 18, "alice", [role |-> ""])
        h20 == get(h19, 19, PathA, NoOptions)
        h21 == asGuest(h20, 20)
        h22 == get(h21, 21, PathB, NoOptions)
        \* 25: create(R1).as('DB Admin').get(' /a/').get(['a','/b/'], debug)
        h23 == as(h22, 1, "DB Admin", [role |-> ""])
        h24 == get(h23, 23, PathA, NoOptions)
        h25 == get(h24, 24, PathB, DebugOptions)
    IN h25

\* the contexts handed to exec: no operation under R1, two operations under
\* R1, one operation under R2
LiveCtxs == {1, 7, 9}

\* the context handed to exec where only the lock is looked at
LockCtxs == {1}

Become(S) ==
    /\ execs' = S.execs
    /\ jobs' = S.jobs
    /\ sequences' = S.sequences
    /\ rulesRequests' = S.rulesRequests
    /\ remote' = S.remote
    /\ nexec' = Len(S.execs)
    /\ heap' = S.heap
    /\ UNCHANGED <<calls, sim, defer, Harness>>

\* exec e has nothing left to do: its result is settled, its deployment is
\* decided and none of its requests is in flight
Quiescent(S, e) ==
    LET x == S.execs[e]
    IN /\ x.result # "pending"
       /\ x.seed \in {"ok", "fail"}
       /\ x.rules \in {"ok", "fail", "skip"}
       /\ x.flying = {}

\* bookkeeping of a call: the hash the cache held when the call was made
NoteCall(S0, S) ==
    [S EXCEPT !.execs[Len(S.execs)].cachedAtCall =
        IF CacheSettled(S0, S0.rulesRequests)
        THEN CacheValue(S0, S0.rulesRequests)
        ELSE "pending"]

\* a caller calls driver.exec(ctx), from a task or from a promise job
ExecCall(c, max) ==
    /\ nexec < max
    /\ Become(NoteCall(Live, exec(Live, heap, c)))

\* the oldest promise job is a then-callback of lock
LockJob ==
    /\ jobs # << >>
    /\ Head(jobs).k = "lock"
    /\ Become(lock([Live EXCEPT !.jobs = Tail(jobs)], heap, Head(jobs).e))

\* the oldest promise job is a then-callback of deployRules
DeployJob ==
    /\ jobs # << >>
    /\ Head(jobs).k = "deploy"
    /\ Become(deployCallback([Live EXCEPT !.jobs = Tail(jobs)], Head(jobs).e))

RulesResponse(e, ok) ==
    /\ jobs = << >>
    /\ execs[e].rules = "inflight"
    /\ Become(rulesDone(Live, e, ok))

SeedResponse(e, ok) ==
    /\ jobs = << >>
    /\ execs[e].seed = "inflight"
    /\ Become(seedDone(Live, e, ok))

OpResponse(e, k, ok) ==
    /\ jobs = << >>
    /\ k \in execs[e].flying
    /\ Become(opDone(Live, e, k, ok))

InitLive ==
    /\ heap = LiveHeap
    /\ calls = << >>
    /\ nexec = 0
    /\ execs = << >>
    /\ sequences = 0
    /\ rulesRequests = 0
    /\ remote = NoRuleset
    /\ jobs = << >>
    /\ sim = SimInit
    /\ defer = DeferInit
    /\ created = << >>
    /\ stub = StubInit
    /\ runs = << >>
    /\ asserts = << >>
    /\ pathCall = NoPathCall
    /\ legacy = LegacyInit

NextLive ==
    \/ \E c \in LiveCtxs : ExecCall(c, MaxExec)
    \/ LockJob
    \/ DeployJob
    \/ \E e \in Execs, ok \in BOOLEAN :
         \/ RulesResponse(e, ok)
         \/ SeedResponse(e, ok)
         \/ \E k \in 1..Len(execs[e].plan) : OpResponse(e, k, ok)

SpecLive == InitLive /\ [][NextLive]_vars

\* the same driver, more exec calls, each on a context with an empty log
NextLock ==
    \/ \E c \in LockCtxs : ExecCall(c, MaxLockExec)
    \/ LockJob
    \/ DeployJob
    \/ \E e \in Execs, ok \in BOOLEAN :
         \/ RulesResponse(e, ok)
         \/ SeedResponse(e, ok)

SpecLock == InitLive /\ [][NextLock]_vars

\* the contexts handed to exec where the release of the lock is looked at:
\* an empty log, and a log whose token generation throws
RelCtxs == {1, 11}

NextRel ==
    \/ \E c \in RelCtxs : ExecCall(c, MaxRelExec)
    \/ LockJob
    \/ DeployJob
    \/ \E e \in Execs, ok \in BOOLEAN :
         \/ RulesResponse(e, ok)
         \/ SeedResponse(e, ok)

\* a step of the event loop: a queued promise job, or a response
LoopStep ==
    \/ LockJob
    \/ DeployJob
    \/ \E e \in Execs, ok \in BOOLEAN :
         \/ RulesResponse(e, ok)
         \/ SeedResponse(e, ok)

\* the event loop goes on while a job is queued or a request is out; as
\* each step uses up a job or a request, every one of them gets its turn
SpecRel == InitLive /\ [][NextRel]_vars /\ WF_vars(LoopStep)

\* the contexts handed to exec where the requests of one sequence are looked
\* at: a seeded log under two identities, a log whose token generation
\* throws, a log with an unknown operation, a log sharing identities
RunCtxs == {7, 11, 14, 22}

NextRun ==
    \/ \E c \in RunCtxs : ExecCall(c, MaxRunExec)
    \/ LockJob
    \/ DeployJob
    \/ \E e \in Execs, ok \in BOOLEAN :
         \/ RulesResponse(e, ok)
         \/ SeedResponse(e, ok)
         \/ \E k \in 1..Len(execs[e].plan) : OpResponse(e, k, ok)

SpecRun == InitLive /\ [][NextRun]_vars

\* a caller that awaits each exec, as in exec().then(exec): the next call is
\* made once every earlier one is settled and has nothing pending
AwaitedExecCall(c) ==
    /\ jobs = << >>
    /\ \A e \in Execs : Quiescent(Live, e)
    /\ ExecCall(c, MaxSeqExec)

\* the same driver under exec calls that do not overlap
NextSeq ==
    \/ \E c \in LiveCtxs : AwaitedExecCall(c)
    \/ LockJob
    \/ DeployJob
    \/ \E e \in Execs, ok \in BOOLEAN :
         \/ RulesResponse(e, ok)
         \/ SeedResponse(e, ok)
         \/ \E k \in 1..Len(execs[e].plan) : OpResponse(e, k, ok)

SpecSeq == InitLive /\ [][NextSeq]_vars

----------------------------------------------------------------------------
(* The live driver with reset: the caches cleared at any moment *)

\* the resets made so far, each with the number of exec calls made before it
Resets == {i \in 1..Len(calls) : calls[i].m = "reset"}

\* reset(): rulesRequests.clear(); sequences.clear()
reset(S) == [S EXCEPT !.rulesRequests = 0, !.sequences = 0]

\* a caller calls live.reset(), from a task or from a promise job
Reset ==
    /\ Cardinality(Resets) < MaxReset
    /\ LET S == reset(Live)
       IN /\ sequences' = S.sequences
          /\ rulesRequests' = S.rulesRequests
          /\ remote' = S.remote
          /\ execs' = S.execs
          /\ jobs' = S.jobs
    /\ calls' = Append(calls, [m |-> "reset", at |-> nexec])
    /\ UNCHANGED <<heap, nexec, sim, defer, Harness>>

NextReset ==
    \/ \E c \in LockCtxs : ExecCall(c, MaxResetExec)
    \/ Reset
    \/ LockJob
    \/ DeployJob
    \/ \E e \in Execs, ok \in BOOLEAN :
         \/ RulesResponse(e, ok)
         \/ SeedResponse(e, ok)

SpecReset == InitLive /\ [][NextReset]_vars

----------------------------------------------------------------------------

(* The live driver under two rulesets: what the cache says and what the *)
(* remote database has                                                   *)

\* the contexts handed to exec: an empty log under R1, an empty log under R2
DeployCtxs == {1, 8}

NextDeploy ==
    \/ \E c \in DeployCtxs : ExecCall(c, MaxDeployExec)
    \/ LockJob
    \/ DeployJob
    \/ \E e \in Execs, ok \in BOOLEAN :
         \/ RulesResponse(e, ok)
         \/ SeedResponse(e, ok)

SpecDeploy == InitLive /\ [][NextDeploy]_vars

----------------------------------------------------------------------------


(* The live driver on operations made under the administrator's uid *)

\* the contexts handed to exec: two gets as 'DB Admin', one of them with the
\* debug option, and a seeded log under two other identities
AdminCtxs == {25, 7}

NextAdmin ==
    \/ \E c \in AdminCtxs : ExecCall(c, MaxAdminExec)
    \/ LockJob
    \/ DeployJob
    \/ \E e \in Execs, ok \in BOOLEAN :
         \/ RulesResponse(e, ok)
         \/ SeedResponse(e, ok)
         \/ \E k \in 1..Len(execs[e].plan) : OpResponse(e, k, ok)

SpecAdmin == InitLive /\ [][NextAdmin]_vars

----------------------------------------------------------------------------

(* The simulated specification: exec calls of the Simulated Driver *)

\* 3:  create(ifAbsent).set(' /a/', v1).set(' /a/', v2)
\* 5:  create(open).startWith(s1)
\* 9:  ... .push(' /a/', v1).get(['a','/b/'], debug).push(' /a/', v2).update(['a','/b/'], p1)
\* 15: create(aliceOnly).as(alice).set(' /a/', v1).asGuest().get(['a','/b/'], debug).push(' /a/', v1)
\* 16: create(aliceOnly).as(alice).set(' /a/', v1).append({op: 'bar'})
\* 18: create(open).fork({auth: {role}}).get(' /a/'), an identity without uid
SimHeap ==
    LET h1 == create(EmptyHeap, "ifAbsent", "simulated")
        h2 == set(h1, 1, PathA, "v1", NoOptions)
        h3 == set(h2, 2, PathA, "v2", NoOptions)
        h4 == create(h3, "open", "simulated")
        h5 == startWith(h4, 4, "s1")
        h6 == push(h5, 5, PathA, "v1", NoOptions)
        h7 == get(h6, 6, PathB, DebugOptions)
        h8 == push(h7, 7, PathA, "v2", NoOptions)
        h9 == update(h8, 8, PathB, "p1", NoOptions)
        h10 == create(h9, "aliceOnly", "simulated")
        h11 == as(h10, 10, "alice", [role |-> ""])
        h12 == set(h11, 11, PathA, "v1", NoOptions)
        h13 == asGuest(h12, 12)
        h14 == get(h13, 13, PathB, DebugOptions)
        h15 == push(h14, 14, PathA, "v1", NoOptions)
        h16 == append(h15, 12, "bar", PathA, Undefined, NoOptions)
        h17 == fork(h16, 4, [NoOpts EXCEPT !.hasAuth = TRUE, !.auth = AuthObj("", "user")])
        h18 == get(h17, 17, PathA, NoOptions)
    IN h18

\* the contexts handed to the Simulated Driver
SimCtxs == {2, 3, 5, 9, 15, 16}

\* a caller calls driver.exec(ctx) on the Simulated Driver
SimExec(c) ==
    /\ Len(sim.runs) < MaxSimExec
    /\ LET r == simExec(heap, c, sim.ID_COUNT)
       IN sim' = [ID_COUNT |-> r.count,
                  runs |-> Append(sim.runs,
                             [ctx |-> r.ctx, outcome |-> r.outcome, at |-> r.at,
                              value |-> r.value, trace |-> r.trace,
                              from |-> sim.ID_COUNT, count |-> r.count])]
    /\ heap' = simExecHeap(heap, c)
    /\ UNCHANGED <<calls, nexec, execs, sequences, rulesRequests, remote, jobs, defer, Harness>>

InitSim ==
    /\ heap = SimHeap
    /\ calls = << >>
    /\ nexec = 0
    /\ execs = << >>
    /\ sequences = 0
    /\ rulesRequests = 0
    /\ remote = NoRuleset
    /\ jobs = << >>
    /\ sim = SimInit
    /\ defer = DeferInit
    /\ created = << >>
    /\ stub = StubInit
    /\ runs = << >>
    /\ asserts = << >>
    /\ pathCall = NoPathCall
    /\ legacy = LegacyInit

NextSim == \E c \in SimCtxs : SimExec(c)

SpecSim == InitSim /\ [][NextSim]_vars

----------------------------------------------------------------------------
(* Either driver executing contexts: the test suite's contexts of the     *)
(* Simulated Driver, or those of the live driver                          *)

\* ctx.driver: the driver a context was created with, which is the driver
\* that executes it
driverOf(h, c) == h.ctxs[c].driver

\* the contexts handed to the live driver: two operations under R1, one
\* operation under R2
ExecCtxs == {7, 9}

InitExec ==
    /\ heap \in {SimHeap, LiveHeap}
    /\ calls = << >>
    /\ nexec = 0
    /\ execs = << >>
    /\ sequences = 0
    /\ rulesRequests = 0
    /\ remote = NoRuleset
    /\ jobs = << >>
    /\ sim = SimInit
    /\ defer = DeferInit
    /\ created = << >>
    /\ stub = StubInit
    /\ runs = << >>
    /\ asserts = << >>
    /\ pathCall = NoPathCall
    /\ legacy = LegacyInit

NextExec ==
    \/ \E c \in SimCtxs : driverOf(heap, c) = "simulated" /\ SimExec(c)
    \/ \E c \in ExecCtxs : driverOf(heap, c) = "live" /\ ExecCall(c, MaxExec)
    \/ LockJob
    \/ DeployJob
    \/ \E e \in Execs, ok \in BOOLEAN :
         \/ RulesResponse(e, ok)
         \/ SeedResponse(e, ok)
         \/ \E k \in 1..Len(execs[e].plan) : OpResponse(e, k, ok)

SpecExec == InitExec /\ [][NextExec]_vars

----------------------------------------------------------------------------
(* The two drivers handed the same logs: the chain calls of a test give   *)
(* the same log whatever the driver of the context                        *)

\* a second set denied, a get denied after a set, an unknown operation, an
\* identity without uid
BothCtxs == {3, 15, 16, 18}

NextBoth ==
    \/ \E c \in BothCtxs : SimExec(c)
    \/ \E c \in BothCtxs : ExecCall(c, MaxBothExec)
    \/ LockJob
    \/ DeployJob
    \/ \E e \in Execs, ok \in BOOLEAN :
         \/ RulesResponse(e, ok)
         \/ SeedResponse(e, ok)
         \/ \E k \in 1..Len(execs[e].plan) : OpResponse(e, k, ok)

SpecBoth == InitSim /\ [][NextBoth]_vars

----------------------------------------------------------------------------

(* The specifications of the promise helpers *)

\* the resolvers handed to thenable
Resolvers ==
    { Resolver("return", NoReason),
      Resolver("throw", Err("e1")),
      Resolver("resolve", NoReason),
      Resolver("reject", Err("e2")),
      Resolver("reject", ErrArray(<< >>)),
      Resolver("reject", NoReason) }

Thenables == 1..Len(defer.thenables)

Others == <<heap, calls, nexec, execs, sequences, rulesRequests, remote, jobs, sim, Harness>>

RECURSIVE CallsUpTo(_)
\* the then, catch and asCallback calls made on the first n thenables
CallsUpTo(n) ==
    IF n = 0 THEN 0
    ELSE defer.thenables[n].consumed + defer.thenables[n].plain + CallsUpTo(n - 1)

Consumptions == CallsUpTo(Len(defer.thenables))

\* a caller calls thenable(resolver), to consume the thenable itself
MakeOwnThenable(r) ==
    /\ Len(defer.thenables) < MaxOwn
    /\ defer' = [defer EXCEPT !.thenables = Append(@, thenable(r))]
    /\ UNCHANGED Others

\* a caller calls thenable(resolver), to hand the thenable to run or all
MakeThenable(r) ==
    /\ Len(defer.thenables) < MaxThenable
    /\ defer.chain.kind = "none"
    /\ defer' = [defer EXCEPT !.thenables = Append(@, thenable(r))]
    /\ UNCHANGED Others

\* a caller calls then on thenable i
Then(i) ==
    /\ Consumptions < MaxConsume
    /\ defer' = [defer EXCEPT !.thenables[i] = consume(@)]
    /\ UNCHANGED Others

\* a caller calls catch on thenable i
Catch(i) ==
    /\ Consumptions < MaxConsume
    /\ defer' = [defer EXCEPT !.thenables[i] = consume(@)]
    /\ UNCHANGED Others

\* a caller calls asCallback on thenable i, with or without done
AsCallback(i, hasDone) ==
    /\ Consumptions < MaxConsume
    /\ defer' = [defer EXCEPT !.thenables[i] = asCallback(@, hasDone)]
    /\ UNCHANGED Others

\* the promise returned by the resolver of thenable i settles
ResolverSettles(i) ==
    /\ defer.thenables[i].state = "pending"
    /\ defer' = [defer EXCEPT !.thenables[i] = settle(@)]
    /\ UNCHANGED Others

InitDefer ==
    /\ heap = EmptyHeap
    /\ calls = << >>
    /\ nexec = 0
    /\ execs = << >>
    /\ sequences = 0
    /\ rulesRequests = 0
    /\ remote = NoRuleset
    /\ jobs = << >>
    /\ sim = SimInit
    /\ defer = DeferInit
    /\ created = << >>
    /\ stub = StubInit
    /\ runs = << >>
    /\ asserts = << >>
    /\ pathCall = NoPathCall
    /\ legacy = LegacyInit

\* the resolvers of the thenables a caller consumes itself
OwnResolvers == {r \in Resolvers : r.reason.t # "array"}

NextThen ==
    \/ \E r \in OwnResolvers : MakeOwnThenable(r)
    \/ \E i \in Thenables :
         \/ Then(i)
         \/ Catch(i)
         \/ \E hasDone \in BOOLEAN : AsCallback(i, hasDone)
         \/ ResolverSettles(i)

\* thenables consumed by their callers
SpecThen == InitDefer /\ [][NextThen]_vars

\* a caller calls run(...thenables) on the thenables made, in order
Run ==
    /\ defer.chain.kind = "none"
    /\ defer' = [defer EXCEPT !.chain = startChain("run", [i \in Thenables |-> i])]
    /\ UNCHANGED Others

\* a caller calls all(...thenables) on the thenables made, in order
All ==
    /\ defer.chain.kind = "none"
    /\ defer' = [defer EXCEPT !.chain = startChain("all", [i \in Thenables |-> i])]
    /\ UNCHANGED Others

\* Promise.resolve(), the start of the reduce
Resolved == [state |-> "fulfilled", reason |-> NoReason]

\* the next then-callback of the chain runs: the thenable at `pos` is settled
\* (or the chain is at its start), and the callback hands the next thenable
\* to the promise machinery, which calls its then
ChainStep ==
    LET before == defer.chain
        cur == IF before.pos = 0 THEN Resolved
               ELSE Outcome(defer.thenables[before.list[before.pos]])
        next == IF before.kind = "run" THEN runAfter(before, cur) ELSE allAfter(before, cur)
    IN /\ before.state = "pending"
       /\ cur.state \in {"fulfilled", "rejected"}
       /\ defer' = [chain |-> next,
                    thenables |-> IF next.pos > before.pos
                                  THEN [defer.thenables EXCEPT ![next.list[next.pos]] = consume(@)]
                                  ELSE defer.thenables]
       /\ UNCHANGED Others

NextChain ==
    \/ \E r \in Resolvers : MakeThenable(r)
    \/ Run
    \/ All
    \/ ChainStep
    \/ \E i \in Thenables : ResolverSettles(i)

\* thenables consumed by run or all only
SpecChain == InitDefer /\ [][NextChain]_vars

----------------------------------------------------------------------------
(* The specification of the path helper: one call, on any arguments *)

PathChars == {" ", "/", "%", "2", "F"}

RECURSIVE StringsUpTo(_)
\* the strings of at most n characters
StringsUpTo(n) ==
    IF n = 0 THEN {<< >>}
    ELSE LET shorter == StringsUpTo(n - 1)
         IN shorter \cup {Append(str, c) : str \in shorter, c \in PathChars}

\* trim(), trim(undefined) and trim(string)
TrimArgs == {<< >>, <<NoPath>>} \cup {<<Str(str)>> : str \in StringsUpTo(MaxTrimLen)}

\* the segments handed to join
Segments ==
    { << >>, <<" ">>, <<"/">>, <<"a">>, <<"/", "a", "/">>, <<"a", "/", "b">>,
      <<" ", "b", " ">> }

\* an argument of join: a string, an array of strings, or undefined
JoinParts ==
    {Str(g) : g \in Segments} \cup {NoPath}
    \cup {Arr(<< >>), Arr(<< <<"a">>, <<"b">> >>), Arr(<< << >>, <<"a">> >>),
          Arr(<< <<"/", "a">>, <<" ">> >>)}

RECURSIVE ArgsUpTo(_)
ArgsUpTo(n) ==
    IF n = 0 THEN {<< >>}
    ELSE LET shorter == ArgsUpTo(n - 1)
         IN shorter \cup {Append(a, part) : a \in shorter, part \in JoinParts}

JoinArgs == ArgsUpTo(MaxJoinArgs)

NotPath == <<heap, calls, nexec, execs, sequences, rulesRequests, remote, jobs, sim, defer,
             created, stub, runs, asserts, legacy>>

\* path.trim(...args) returns
Trim ==
    /\ pathCall.fn = "trim"
    /\ ~pathCall.done
    /\ pathCall' = [pathCall EXCEPT
                      !.result = trim(IF pathCall.args = << >> THEN NoPath
                                      ELSE pathCall.args[1]),
                      !.done = TRUE]
    /\ UNCHANGED NotPath

\* path.join(...args) returns
Join ==
    /\ pathCall.fn = "join"
    /\ ~pathCall.done
    /\ pathCall' = [pathCall EXCEPT !.result = join(pathCall.args), !.done = TRUE]
    /\ UNCHANGED NotPath

InitPath ==
    /\ heap = EmptyHeap
    /\ calls = << >>
    /\ nexec = 0
    /\ execs = << >>
    /\ sequences = 0
    /\ rulesRequests = 0
    /\ remote = NoRuleset
    /\ jobs = << >>
    /\ sim = SimInit
    /\ defer = DeferInit
    /\ created = << >>
    /\ stub = StubInit
    /\ runs = << >>
    /\ asserts = << >>
    /\ pathCall \in {[fn |-> "trim", args |-> a, result |-> << >>, done |-> FALSE] :
                        a \in TrimArgs}
                  \cup {[fn |-> "join", args |-> a, result |-> << >>, done |-> FALSE] :
                          a \in JoinArgs}
    /\ legacy = LegacyInit

NextPath == Trim \/ Join

SpecPath == InitPath /\ [][NextPath]_vars

----------------------------------------------------------------------------
(* The specification of create: create calls, and chain calls on the contexts *)

\* create(), create({}), create({rules}), create({driver}), create({rules, driver})
CreateOpts ==
    {NoCreateOpts} \cup {[rules |-> r, driver |-> d] : r \in {"R1", ""}, d \in {"stub", ""}}

\* a test author calls context.create(opts)
Create(opts) ==
    LET made == Context(heap, stub, opts)
    IN /\ Len(created) < MaxCreate
       /\ Len(heap.ctxs) < MaxCtx
       /\ heap' = made.heap
       /\ stub' = made.stub
       /\ created' = Append(created, [opts |-> opts, threw |-> made.threw, ctx |-> made.ctx])
       /\ calls' = IF made.threw # "" THEN calls
                   ELSE Append(calls, [m |-> "create", on |-> 0, hasAuth |-> TRUE,
                                       auth |-> NullAuth, seed |-> Null])
       /\ UNCHANGED <<nexec, execs, sequences, rulesRequests, remote, jobs, sim, defer,
                      runs, asserts, pathCall, legacy>>

InitCreate ==
    /\ heap = EmptyHeap
    /\ calls = << >>
    /\ nexec = 0
    /\ execs = << >>
    /\ sequences = 0
    /\ rulesRequests = 0
    /\ remote = NoRuleset
    /\ jobs = << >>
    /\ sim = SimInit
    /\ defer = DeferInit
    /\ created = << >>
    /\ stub = StubInit
    /\ runs = << >>
    /\ asserts = << >>
    /\ pathCall = NoPathCall
    /\ legacy = LegacyInit

NextCreate ==
    \/ \E opts \in CreateOpts : Create(opts)
    \/ \E c \in Ctxs :
         \/ \E seed \in Seeds : CallStartWith(c, seed)
         \/ CallAsGuest(c)
         \/ \E a \in ChainArgs : CallSet(c, a)

SpecCreate == InitCreate /\ [][NextCreate]_vars

----------------------------------------------------------------------------
(* The specification of chain, then and catch: calls on contexts of a stub driver *)

\* what the stub driver is told to do at an exec call
Behaviours ==
    { Resolver("return", NoReason),
      Resolver("throw", Err("e1")),
      Resolver("resolve", NoReason),
      Resolver("reject", Err("e2")) }

\* 1: create({rules, driver}); 2: 1.set('foo'); 3: 2.as('bob')
StubHeap ==
    LET h1 == Context(EmptyHeap, StubInit, [rules |-> "R1", driver |-> "stub"]).heap
        h2 == set(h1, 1, Str(<<"f", "o", "o">>), Undefined, NoOptions)
    IN as(h2, 2, "bob", [role |-> ""])

StubCalls ==
    << [m |-> "create", on |-> 0, hasAuth |-> TRUE, auth |-> NullAuth, seed |-> Null],
       [m |-> "set", on |-> 1, hasAuth |-> FALSE, auth |-> NullAuth, seed |-> Null],
       [m |-> "as", on |-> 2, hasAuth |-> TRUE, auth |-> AuthObj("bob", ""), seed |-> Null] >>

\* the contexts the calls are made on
StubCtxs == {2, 3}

NotRun == <<heap, calls, nexec, execs, sequences, rulesRequests, remote, jobs, sim, defer,
            created, asserts, pathCall, legacy>>

\* a test author calls a method of context c that runs it
Ran(r) ==
    /\ Len(runs) < MaxRuns
    /\ stub' = r.stub
    /\ runs' = Append(runs, r.run)
    /\ UNCHANGED NotRun

CallChain(c, b) == Ran(chain(stub, c, b))

CallThen(c, b) == Ran(then(stub, c, b))

CallCatch(c, b) == Ran(catch(stub, c, b))

\* the promise the stub returned for exec call x settles
ExecSettles(x) ==
    /\ stub.execs[x].state = "pending"
    /\ stub' = [stub EXCEPT !.execs[x].state = "done"]
    /\ runs' = [i \in 1..Len(runs) |->
                  IF runs[i].exec = x /\ runs[i].state = "pending"
                  THEN follow(runs[i], stub.execs[x]) ELSE runs[i]]
    /\ UNCHANGED NotRun

InitStub ==
    /\ heap = StubHeap
    /\ calls = StubCalls
    /\ nexec = 0
    /\ execs = << >>
    /\ sequences = 0
    /\ rulesRequests = 0
    /\ remote = NoRuleset
    /\ jobs = << >>
    /\ sim = SimInit
    /\ defer = DeferInit
    /\ created = << [opts |-> [rules |-> "R1", driver |-> "stub"], threw |-> "", ctx |-> 1] >>
    /\ stub = Context(EmptyHeap, StubInit, [rules |-> "R1", driver |-> "stub"]).stub
    /\ runs = << >>
    /\ asserts = << >>
    /\ pathCall = NoPathCall
    /\ legacy = LegacyInit

NextRuns ==
    \/ \E c \in StubCtxs, b \in Behaviours :
         \/ CallChain(c, b)
         \/ CallThen(c, b)
         \/ CallCatch(c, b)
    \/ \E x \in 1..Len(stub.execs) : ExecSettles(x)

SpecRuns == InitStub /\ [][NextRuns]_vars

----------------------------------------------------------------------------
(* src/context.js: the assertions ok and shouldFail *)

DefaultOkMsg == "Operation should not have failed"
DefaultFailMsg == "Operation should have failed"

\* a wrapper error that does not keep the failure it wraps
FailureErrorWithoutOriginal(msg, error) ==
    [t |-> "FailureError", name |-> msg, items |-> << >>,
     detail |-> IF error.t = "error" THEN "stack" ELSE "string",
     original |-> NoReason]

\* new FailureError(msg, error): the message is msg and the stack of error,
\* or its string when it is null or has no stack; original is error
FailureError(msg, error) ==
    [t |-> "FailureError", name |-> msg, items |-> << >>,
     detail |-> IF error.t = "error" THEN "stack" ELSE "string",
     original |-> error]

\* the driver's exec fails: it throws, or the promise it returns is rejected
Rejects(b) == b.how \in {"throw", "reject"}

\* what the resolver of ok returns, when the driver does b:
\* this.catch(err => Promise.reject(new FailureError(msg, err)))
okResolver(msg, b) ==
    IF Rejects(b) THEN Resolver("reject", FailureError(msg, b.reason))
    ELSE Resolver("resolve", NoReason)

\* a shouldFail that swallows the failure and lets a success pass: this.catch(noop)
shouldFailSwallowing(msg, b) == Resolver("resolve", NoReason)

\* what the resolver of shouldFail returns, when the driver does b:
\* this.then(() => Promise.reject(new Error(msg)), noop)
shouldFailResolver(msg, b) ==
    IF Rejects(b) THEN Resolver("resolve", NoReason)
    ELSE Resolver("reject", Err(msg))

\* the resolver of an assertion before it is called: it will run the context
RunsTheContext == Resolver("run", NoReason)

\* then, catch or asCallback(done) is called on the thenable of assertion A:
\* when this calls the resolver, the resolver calls then or catch on the
\* context, which calls the driver's exec, which does b
consumption(A, st, b, via) ==
    LET R == IF A.kind = "ok" THEN okResolver(A.msg, b) ELSE shouldFailResolver(A.msg, b)
        armed == [A.th EXCEPT !.resolver = R]
        tried == IF via = "asCallback" THEN asCallback(armed, TRUE) ELSE consume(armed)
        cachedOne == IF via = "asCallback" THEN asCallback(A.th, TRUE) ELSE consume(A.th)
        run == IF A.kind = "ok" THEN catch(st, A.ctx, b) ELSE then(st, A.ctx, b)
    IN IF tried.called > A.th.called
       THEN [assert |-> [A EXCEPT !.th = tried, !.execs = Append(@, run.run.exec)],
             stub |-> run.stub]
       ELSE [assert |-> [A EXCEPT !.th = cachedOne], stub |-> st]

\* an assertion that runs the context when it is made, done or no done
assertionEager(kind, st, c, msg, hasDone, b) ==
    LET A == [kind |-> kind, ctx |-> c, msg |-> msg, hasDone |-> hasDone, uses |-> 0,
              returned |-> asCallbackReturns(hasDone),
              th |-> thenable(RunsTheContext), execs |-> << >>]
    IN consumption(A, st, b, IF hasDone THEN "asCallback" ELSE "then")

\* ok({msg, done}) and shouldFail({msg, done}): thenable(resolver).asCallback(done)
assertion(kind, st, c, msg, hasDone, b) ==
    LET A == [kind |-> kind, ctx |-> c, msg |-> msg, hasDone |-> hasDone, uses |-> 0,
              returned |-> asCallbackReturns(hasDone),
              th |-> thenable(RunsTheContext), execs |-> << >>]
    IN IF hasDone THEN consumption(A, st, b, "asCallback")
       ELSE [assert |-> [A EXCEPT !.th = asCallback(@, FALSE)], stub |-> st]

\* ok({msg = 'Operation should not have failed', done} = {})
ok(st, c, msg, hasDone, b) ==
    assertion("ok", st, c, IF msg = Undefined THEN DefaultOkMsg ELSE msg, hasDone, b)

\* shouldFail({msg = 'Operation should have failed', done} = {})
shouldFail(st, c, msg, hasDone, b) ==
    assertion("shouldFail", st, c, IF msg = Undefined THEN DefaultFailMsg ELSE msg, hasDone, b)

----------------------------------------------------------------------------
(* The specification of ok and shouldFail, on a context of a stub driver *)

\* the failures of the tests: an Error, an object with no stack, undefined
AssertBehaviours ==
    Behaviours \cup {Resolver("throw", NoStack), Resolver("reject", NoReason)}

\* the msg option: omitted, or a message
Msgs == {Undefined, "foo bar fails"}

AssertCtxs == {2}

NotAssert == <<heap, calls, nexec, execs, sequences, rulesRequests, remote, jobs, sim, defer,
               created, runs, pathCall, legacy>>

Asserted(r) ==
    /\ Len(asserts) < MaxAsserts
    /\ asserts' = Append(asserts, r.assert)
    /\ stub' = r.stub
    /\ UNCHANGED NotAssert

\* a test author calls ok() or ok({msg}) on context c
CallOk(c, msg) ==
    Asserted(ok(stub, c, msg, FALSE, Resolver("return", NoReason)))

\* a test author calls ok({done}) or ok({msg, done}) on context c; the driver does b
CallOkDone(c, msg, b) == Asserted(ok(stub, c, msg, TRUE, b))

\* a test author calls shouldFail() or shouldFail({msg}) on context c
CallShouldFail(c, msg) ==
    Asserted(shouldFail(stub, c, msg, FALSE, Resolver("return", NoReason)))

\* a test author calls shouldFail({done}) or shouldFail({msg, done}) on context c
CallShouldFailDone(c, msg, b) == Asserted(shouldFail(stub, c, msg, TRUE, b))

\* a test author calls then or catch on the deferred of assertion a
Used(a, b, via) ==
    LET r == consumption(asserts[a], stub, b, via)
    IN /\ ~asserts[a].hasDone
       /\ asserts[a].uses < MaxUses
       /\ asserts' = [asserts EXCEPT ![a] = [r.assert EXCEPT !.uses = @ + 1]]
       /\ stub' = r.stub
       /\ UNCHANGED NotAssert

AssertThen(a, b) == Used(a, b, "then")

AssertCatch(a, b) == Used(a, b, "catch")

\* the promise the resolver of assertion a returned settles, the driver's
\* exec being over
AssertSettles(a) ==
    /\ asserts[a].th.state = "pending"
    /\ \A i \in 1..Len(asserts[a].execs) : stub.execs[asserts[a].execs[i]].state = "done"
    /\ asserts' = [asserts EXCEPT ![a].th = settle(@)]
    /\ UNCHANGED <<stub, NotAssert>>

NextAssert ==
    \/ \E c \in AssertCtxs, msg \in Msgs :
         \/ CallOk(c, msg)
         \/ CallShouldFail(c, msg)
         \/ \E b \in AssertBehaviours :
              \/ CallOkDone(c, msg, b)
              \/ CallShouldFailDone(c, msg, b)
    \/ \E a \in 1..Len(asserts) :
         \/ \E b \in AssertBehaviours :
              \/ AssertThen(a, b)
              \/ AssertCatch(a, b)
         \/ AssertSettles(a)
    \/ \E x \in 1..Len(stub.execs) : ExecSettles(x)

SpecAssert == InitStub /\ [][NextAssert]_vars

----------------------------------------------------------------------------
(* src/testsuite.js: the chained Context of the legacy test suite.  One  *)
(* Context object carries one promise chain; a call replaces the chain   *)
(* by chain.then(callback) and returns the same Context.                  *)

\* the calls a test chains: as(uid), as() and the five operations
LegacyMethods == {"login", "logout", "get", "set", "update", "push", "remove"}

\* then(onSuccess): this.chain = this.chain.then(onSucess, onError); the
\* callback waits for the chain before it
legacyThen(L, m) ==
    [L EXCEPT !.calls = @ + 1,
              !.todo = Append(@, [n |-> L.calls + 1, m |-> m])]

\* suite.logout(): this.ref().unauth(); this.currentUser = undefined
logout(L, n) ==
    [L EXCEPT !.effects = Append(@, [n |-> n, m |-> "logout"]),
              !.currentUser = "undefined"]

\* an as() that chains the log-out like any other call
legacyAsChained(L, uid) ==
    legacyThen(L, IF uid = "" THEN "logout" ELSE "login")

\* as(uid, opts, debug): without uid the user is logged out on the spot and
\* the Context returned; with one, the login is chained
legacyAs(L, uid) ==
    IF uid = "" THEN logout([L EXCEPT !.calls = @ + 1], L.calls + 1)
    ELSE legacyThen(L, "login")

\* get, set, update, push, remove: this.then(() => new Promise(...))
legacyOp(L, m) == legacyThen(L, m)

\* the callback of the oldest waiting call runs, the chain before it being
\* fulfilled: suite.login(...) or suite.ref(path).<op>(...) reaches the
\* connection, and the chain is pending until the connection calls back
legacyRun(L) ==
    LET c == Head(L.todo)
    IN IF c.m = "logout"
       THEN [logout(L, c.n) EXCEPT !.todo = Tail(L.todo)]
       ELSE [L EXCEPT !.todo = Tail(@),
                      !.flying = Len(L.effects) + 1,
                      !.state = "pending",
                      !.effects = Append(@, [n |-> c.n, m |-> c.m]),
                      !.currentUser = IF c.m = "login" THEN "uid" ELSE @]

\* the chain before the oldest waiting call is rejected: then(onSuccess,
\* undefined) hands the rejection on and the callback never runs
legacySkip(L) == [L EXCEPT !.todo = Tail(@)]

\* makeCallback(resolve, reject): the connection calls back
legacySettle(L, success) ==
    [L EXCEPT !.flying = 0, !.state = IF success THEN "fulfilled" ELSE "rejected"]

\* suite.with(data): the administrator's login is out; the write of the
\* seed and the log-out that follows it wait on the chain (call number 0)
with ==
    [calls |-> 0,
     todo |-> << [n |-> 0, m |-> "set"], [n |-> 0, m |-> "logout"] >>,
     flying |-> 1, state |-> "pending",
     effects |-> << [n |-> 0, m |-> "logAsAdmin"] >>,
     currentUser |-> "DB Admin"]

NotLegacy == <<heap, calls, nexec, execs, sequences, rulesRequests, remote, jobs, sim,
               defer, created, stub, runs, asserts, pathCall>>

\* a test calls ctx.as(uid) or ctx.as()
LegacyAs(uid) ==
    /\ legacy.calls < MaxLegacyCalls
    /\ legacy' = legacyAs(legacy, uid)
    /\ UNCHANGED NotLegacy

\* a test calls ctx.get, ctx.set, ctx.update, ctx.push or ctx.remove
LegacyOp(m) ==
    /\ legacy.calls < MaxLegacyCalls
    /\ legacy' = legacyOp(legacy, m)
    /\ UNCHANGED NotLegacy

\* a promise job: the callback of the oldest waiting call
LegacyRun ==
    /\ legacy.todo # << >>
    /\ legacy.state = "fulfilled"
    /\ legacy' = legacyRun(legacy)
    /\ UNCHANGED NotLegacy

\* a promise job: the rejection passes the oldest waiting call
LegacySkip ==
    /\ legacy.todo # << >>
    /\ legacy.state = "rejected"
    /\ legacy' = legacySkip(legacy)
    /\ UNCHANGED NotLegacy

\* the connection answers the request in flight
LegacySettle(success) ==
    /\ legacy.flying # 0
    /\ legacy' = legacySettle(legacy, success)
    /\ UNCHANGED NotLegacy

NextLegacy ==
    \/ \E uid \in {"", "bob"} : LegacyAs(uid)
    \/ \E m \in LegacyMethods \ {"login", "logout"} : LegacyOp(m)
    \/ LegacyRun
    \/ LegacySkip
    \/ \E success \in BOOLEAN : LegacySettle(success)

\* the Context a test starts from: suite.with(data), or new Context(suite,
\* Promise.resolve()) as in the unit tests
InitLegacy ==
    /\ heap = EmptyHeap
    /\ calls = << >>
    /\ nexec = 0
    /\ execs = << >>
    /\ sequences = 0
    /\ rulesRequests = 0
    /\ remote = NoRuleset
    /\ jobs = << >>
    /\ sim = SimInit
    /\ defer = DeferInit
    /\ created = << >>
    /\ stub = StubInit
    /\ runs = << >>
    /\ asserts = << >>
    /\ pathCall = NoPathCall
    /\ legacy \in {LegacyInit, with}

SpecLegacy == InitLegacy /\ [][NextLegacy]_vars

----------------------------------------------------------------------------

(* What the calls made so far say each context must hold *)

\* the operation kind a chain method logs
KindOf(m) == IF m = "remove" THEN "set" ELSE m

RECURSIVE IdentityAt(_, _)
\* the identity current on context c: the one given by the latest as, asGuest
\* or fork-with-auth on the way from the root to c
IdentityAt(cs, c) ==
    IF cs[c].hasAuth THEN cs[c].auth ELSE IdentityAt(cs, cs[c].on)

RECURSIVE Kinds(_, _)
\* the kinds of the append calls on the way to c, since create or startWith
Kinds(cs, c) ==
    IF cs[c].m \in {"create", "startWith"} THEN << >>
    ELSE IF cs[c].m \in AppendMethods
    THEN Append(Kinds(cs, cs[c].on), KindOf(cs[c].m))
    ELSE Kinds(cs, cs[c].on)

RECURSIVE Actors(_, _)
\* for each of these append calls, the identity current when it was made
Actors(cs, c) ==
    IF cs[c].m \in {"create", "startWith"} THEN << >>
    ELSE IF cs[c].m \in AppendMethods
    THEN Append(Actors(cs, cs[c].on), IdentityAt(cs, cs[c].on))
    ELSE Actors(cs, cs[c].on)

\* the requests a Live Driver exec of context c would make for its log
PlanOf(h, c) == OpRequests(AdminTokens, opsOf(h, c))

\* a chain call has just returned context Len(calls')
Called == Len(calls') = Len(calls) + 1

----------------------------------------------------------------------------
(* Claims on the context chain (SpecCtx) *)

\* C2: no chain call changes the operation log, the identity or the seed of
\* any context that existed before the call, whatever context it is made on.
C2_ForkNeverMutates ==
    [][\A c \in Ctxs :
          /\ opsOf(heap', c) = opsOf(heap, c)
          /\ authOf(heap', c) = authOf(heap, c)
          /\ seedOf(heap', c) = seedOf(heap, c)]_vars

\* a = ctx.set(..), b = a.set(..): a holds one operation, b two
C2_Witness ==
    \E a, b \in Ctxs :
        /\ calls[a].m \in AppendMethods /\ calls[b].m \in AppendMethods
        /\ calls[b].on = a
        /\ Len(opsOf(heap, a)) = 1 /\ Len(opsOf(heap, b)) = 2

\* C3: get, set, update, push and remove return a context whose log is the
\* receiver's log followed by one operation of the method's kind; the log
\* of every context lists the append calls that led to it, in call order.
C3_CopyThenAppend ==
    [][Called =>
         LET r == Len(calls')
             k == calls'[r]
             log == opsOf(heap', r)
         IN /\ k.m \in AppendMethods =>
                 /\ Len(log) = Len(opsOf(heap, k.on)) + 1
                 /\ SubSeq(log, 1, Len(log) - 1) = opsOf(heap, k.on)
                 /\ log[Len(log)].op = KindOf(k.m)
            /\ \A c \in 1..r :
                 [i \in 1..Len(opsOf(heap', c)) |-> opsOf(heap', c)[i].op]
                     = Kinds(calls', c)]_vars

\* three append calls in a row, of three kinds
C3_Witness ==
    \E c \in Ctxs :
        /\ Len(opsOf(heap, c)) = 3
        /\ opsOf(heap, c)[1].op = "get"
        /\ opsOf(heap, c)[2].op = "update"
        /\ opsOf(heap, c)[3].op = "push"

\* C4: in every context each logged operation records the identity that was
\* current when it was appended, and the request the Live Driver makes for
\* it carries a token of that identity (none for the null identity).
C4_IdentityBoundAtAppend ==
    \A c \in Ctxs :
        LET log == opsOf(heap, c)
            who == Actors(calls, c)
            plan == PlanOf(heap, c)
        IN /\ Len(log) = Len(who)
           /\ \A i \in 1..Len(log) :
                /\ i <= Len(who) => log[i].auth = who[i]
                /\ plan[i].auth.auth = log[i].auth
                /\ (plan[i].auth = NoToken) <=> log[i].auth.nil

\* an operation appended before as(...) and one appended after it
C4_Witness ==
    \E c \in Ctxs :
        /\ Len(opsOf(heap, c)) = 2
        /\ opsOf(heap, c)[1].auth # opsOf(heap, c)[2].auth
        /\ ~opsOf(heap, c)[2].auth.nil
        /\ calls[calls[c].on].m = "as"

\* C5: startWith(seed) returns a context with an empty log, the given seed
\* and the receiver's ruleset, driver and identity; an exec of any context
\* replays only the operations appended since the last startWith.
C5_StartWithResets ==
    [][Called =>
         LET r == Len(calls')
             k == calls'[r]
         IN /\ k.m = "startWith" =>
                 /\ opsOf(heap', r) = << >>
                 /\ seedOf(heap', r) = k.seed
                 /\ rulesOf(heap', r) = rulesOf(heap, k.on)
                 /\ heap'.ctxs[r].driver = heap.ctxs[k.on].driver
                 /\ authOf(heap', r) = authOf(heap, k.on)
                 /\ PlanOf(heap', r) = << >>
            /\ \A c \in 1..r :
                 Len(PlanOf(heap', c)) = Len(Kinds(calls', c))]_vars

\* startWith on a context that has an identity and a logged operation
C5_Witness ==
    \E c \in Ctxs :
        /\ calls[c].m = "startWith"
        /\ Len(opsOf(heap, calls[c].on)) >= 1
        /\ ~authOf(heap, c).nil
        /\ opsOf(heap, c) = << >>

----------------------------------------------------------------------------
(* Claims on the Live Driver (SpecLive, SpecLock) *)

InFlight(e) ==
    \/ execs[e].seed = "inflight"
    \/ execs[e].rules = "inflight"
    \/ execs[e].flying # {}

\* the rules request of exec e has been issued
Deployed(e) == execs[e].rules \in {"inflight", "ok", "fail"}

\* how many requests of one kind exec e has issued
CountSent(e, what) ==
    Cardinality({i \in 1..Len(execs[e].sent) : execs[e].sent[i].what = what})

\* C1: in no reachable state do two exec calls on the target have requests
\* in flight at the same time.
C1_NoInterleaving ==
    \A a, b \in Execs : a # b => ~(InFlight(a) /\ InFlight(b))

\* C6: within one exec the operation requests are issued in log order, each
\* only after the request before it completed successfully, and at most one
\* of them is in flight.
C6_OpsInLogOrder ==
    \A e \in Execs :
        LET x == execs[e]
            log == opsOf(heap, x.ctx)
            opsSent == SelectSeq(x.sent, LAMBDA r : r.what = "op")
        IN /\ Cardinality(x.flying) <= 1
           /\ Len(opsSent) <= Len(log)
           /\ \A i \in 1..Len(opsSent) :
                /\ opsSent[i].k = i
                /\ i <= Len(log) => /\ opsSent[i].req.kind = log[i].op
                                    /\ opsSent[i].req.paths = log[i].path
                /\ i > 1 => (i - 1) \in x.okOps

\* the second operation is in flight, the first has succeeded
C6_Witness ==
    \E e \in Execs : execs[e].flying = {2} /\ execs[e].okOps = {1}

\* C7: if the request of operation k is rejected, the exec is rejected with
\* that failure and no request is issued for a later operation.
C7_FirstFailureAborts ==
    \A e \in Execs :
        \A k \in execs[e].failedOps :
            /\ execs[e].result = "rejected"
            /\ execs[e].error = Failure("op", k)
            /\ \A i \in 1..Len(execs[e].sent) :
                 execs[e].sent[i].what = "op" => execs[e].sent[i].k <= k

\* the first of two operations failed
C7_Witness ==
    \E e \in Execs : execs[e].failedOps = {1} /\ Len(execs[e].plan) = 2

\* C8: when exec calls do not overlap, an exec issues a rules request only
\* if the hash of its ruleset differs from the hash cached when it was
\* called; of two successive execs with the same ruleset, the first
\* deploying successfully, the first issues one rules request and the
\* second none.
C8_SameRulesDeployedOnce ==
    \A b \in Execs :
        /\ Deployed(b) => execs[b].cachedAtCall # Hash(execs[b].ruleset)
        /\ \A a \in Execs :
             ( /\ b = a + 1
               /\ execs[a].ruleset = execs[b].ruleset
               /\ execs[a].rules = "ok" )
             => /\ CountSent(a, "rules") = 1
                /\ CountSent(b, "rules") = 0
                /\ ~Deployed(b)

\* the second of two execs with one ruleset went through without deploying
C8_Witness ==
    \E a, b \in Execs :
        /\ b = a + 1
        /\ execs[a].ruleset = execs[b].ruleset
        /\ execs[a].rules = "ok"
        /\ execs[b].rules = "skip"
        /\ execs[b].result = "fulfilled"

C9_WitnessRetry ==
    \E e, b \in Execs :
        /\ b = e + 1
        /\ execs[e].rules = "fail"
        /\ execs[b].ruleset = execs[e].ruleset
        /\ Deployed(b)

\* C10: the sequences of the exec calls start in the order the calls were
\* made.
C10_StartInCallOrder ==
    \A a, b \in Execs :
        (a < b /\ execs[b].started > 0) =>
            (execs[a].started > 0 /\ execs[a].started < execs[b].started)

----------------------------------------------------------------------------
(* Claims on the release of the lock (SpecRel) *)

\* the failure exec e reports is one of its own: a request of its own that
\* failed, an unknown operation of its log, a token its log asked for
OwnFailure(e) ==
    LET x == execs[e]
    IN \/ x.error.what = "rules" /\ x.rules = "fail"
       \/ x.error.what = "seed" /\ x.seed = "fail"
       \/ x.error.what = "op" /\ x.error.k \in x.failedOps
       \/ x.error.what = "unknown" /\ x.plan[x.error.k].kind = "unknown"
       \/ x.error.what = "token" /\ ThrowingOp(opsOf(heap, x.ctx)) = x.error.k

\* C11: every exec call made eventually starts its sequence, the earlier
\* sequences settling by fulfilment, rejection or a throw; and an exec is
\* only ever rejected with a failure of its own, never an earlier one's.
C11_LockAlwaysReleased ==
    /\ []<>(\A e \in Execs : execs[e].started > 0)
    /\ [](\A e \in Execs : execs[e].result = "rejected" => OwnFailure(e))

\* the first sequence was rejected and the second, which waited for it,
\* has started and is fulfilled
C11_Witness ==
    /\ nexec = 2
    /\ execs[1].result = "rejected"
    /\ execs[2].lastSequence = 1
    /\ execs[2].started > 0
    /\ execs[2].result = "fulfilled"

\* the first sequence threw and the second has started
C11_WitnessThrow ==
    /\ nexec = 2
    /\ execs[1].error.what = "token"
    /\ execs[2].started > execs[1].started

----------------------------------------------------------------------------
(* Claims on the requests of one sequence (SpecRun) *)

\* the requests exec e has issued for logged operations
OpsSent(e) == {i \in 1..Len(execs[e].sent) : execs[e].sent[i].what = "op"}

\* C12: an exec whose sequence has started has issued exactly one seed
\* write: a set of the context's seed at the root path with the admin
\* token; a request for a logged operation is out only once the seed write
\* and the deployment step have both succeeded; if either failed the exec
\* is rejected and has issued no operation request.
C12_SeedBeforeOps ==
    \A e \in Execs :
        LET x == execs[e]
            seeds == {i \in 1..Len(x.sent) : x.sent[i].what = "seed"}
        IN /\ x.started = 0 => x.sent = << >>
           /\ x.started > 0 =>
                /\ Cardinality(seeds) = 1
                /\ \A i \in seeds :
                     /\ x.sent[i].req.kind = "set"
                     /\ x.sent[i].req.paths = << >>
                     /\ x.sent[i].req.payload = seedOf(heap, x.ctx)
                     /\ x.sent[i].req.auth.auth = adminAuth
                     /\ x.sent[i].req.auth.opts = "admin"
                     /\ \A j \in OpsSent(e) : i < j
           /\ OpsSent(e) # {} => x.seed = "ok" /\ x.rules \in {"ok", "skip"}
           /\ (x.seed = "fail" \/ x.rules = "fail") =>
                x.result = "rejected" /\ OpsSent(e) = {}

\* the seed s1 was written, the rules deployed, and an operation went out
C12_Witness ==
    \E e \in Execs :
        /\ seedOf(heap, execs[e].ctx) = "s1"
        /\ execs[e].seed = "ok"
        /\ execs[e].rules = "ok"
        /\ OpsSent(e) # {}

\* the rules deployment failed after the seed write succeeded
C12_WitnessFailed ==
    \E e \in Execs :
        /\ execs[e].seed = "ok"
        /\ execs[e].rules = "fail"
        /\ Len(opsOf(heap, execs[e].ctx)) > 0

\* the (identity, token options) pairs of a log
TokenPairs(ops) ==
    {<<ops[i].auth, DebugOpts(ops[i].options)>> :
        i \in {j \in 1..Len(ops) : ~ops[j].auth.nil}}

C14_UnknownOpRejects ==
    \A e \in Execs :
        LET x == execs[e]
            ops == opsOf(heap, x.ctx)
        IN \A k \in 1..Len(ops) :
             (ops[k].op \notin KnownOps /\ x.started > 0 /\ ThrowingOp(ops) = 0) =>
                /\ \A s \in OpsSent(e) : x.sent[s].k < k
                /\ (1..(k - 1)) \subseteq x.okOps =>
                     /\ x.result = "rejected"
                     /\ x.error = Failure("unknown", k)

\* set, foo, get: the set succeeded and the exec is rejected at foo
C14_Witness ==
    \E e \in Execs :
        /\ Len(opsOf(heap, execs[e].ctx)) = 3
        /\ opsOf(heap, execs[e].ctx)[2].op = "foo"
        /\ execs[e].okOps = {1}
        /\ execs[e].error = Failure("unknown", 2)

----------------------------------------------------------------------------
(* Claims on the Simulated Driver (SpecSim) *)

SimRuns == 1..Len(sim.runs)

\* what the rules are asked for an operation kind
RuleKind(op) == IF op = "get" THEN "read" ELSE "write"

\* how many of the first n operations of a log are pushes
PushesUpTo(ops, n) == Cardinality({i \in 1..n : ops[i].op = "push"})

\* C15: the operations are evaluated in log order; the first against the
\* seed's data, each next one against the data the one before left; the
\* permission of each is decided on the data it is evaluated against; a get
\* leaves the data as it found them, a set leaves them with its value
\* written; an exec that returns has evaluated the whole log and returns
\* the data left by the last operation (the seed's data for an empty log).
C15_OpsOnCurrentSnapshot ==
    \A r \in SimRuns :
        LET run == sim.runs[r]
            t == run.trace
            ops == opsOf(heap, run.ctx)
            seed == store(seedOf(heap, run.ctx))
        IN /\ \A i \in 1..Len(t) :
                /\ t[i].k = i
                /\ t[i].op = ops[i].op
                /\ t[i].before = (IF i = 1 THEN seed ELSE t[i - 1].after)
                /\ t[i].checked =>
                     t[i].allowed = allowed(rulesOf(heap, run.ctx), RuleKind(t[i].op),
                                            ops[i].auth, t[i].before)
                /\ t[i].op = "get" => t[i].after = t[i].before
                /\ (t[i].op = "set" /\ t[i].allowed) =>
                     t[i].after = writeData(t[i].before, Location(ops[i].path), ops[i].value)
           /\ run.outcome = "returned" =>
                /\ Len(t) = Len(ops)
                /\ run.value = (IF Len(t) = 0 THEN seed ELSE t[Len(t)].after)

\* a second set was denied because of what the first set had written, while
\* another exec returned seed data together with what four operations wrote
C15_Witness ==
    /\ \E r \in SimRuns :
          /\ sim.runs[r].outcome = "threw" /\ sim.runs[r].at = 2
          /\ sim.runs[r].trace[1].op = "set" /\ sim.runs[r].trace[1].allowed
          /\ sim.runs[r].trace[2].op = "set"
          /\ sim.runs[r].trace[2].before # {}
    /\ \E r \in SimRuns :
          /\ sim.runs[r].outcome = "returned"
          /\ Len(sim.runs[r].trace) = 4
          /\ SeedData("s1") \subseteq sim.runs[r].value
          /\ Cardinality(sim.runs[r].value) > 2

\* C16: when the rules deny an operation, or its kind is unknown, exec
\* throws at that operation: nothing after it is evaluated, no key is
\* generated and nothing is logged for a later operation, and no data is
\* returned.
C16_FirstDenialThrows ==
    \A r \in SimRuns :
        LET run == sim.runs[r]
            t == run.trace
            ops == opsOf(heap, run.ctx)
            denied(i) == \/ ~t[i].checked
                         \/ ~allowed(rulesOf(heap, run.ctx), RuleKind(t[i].op),
                                      ops[i].auth, t[i].before)
        IN /\ \A i \in 1..Len(t) :
                denied(i) =>
                    /\ run.outcome = "threw"
                    /\ run.at = i
                    /\ Len(t) = i
                    /\ run.value = NoSnapshot
                    /\ run.count - run.from = PushesUpTo(ops, i)
           /\ run.outcome = "threw" => (run.at = Len(t) /\ Len(t) >= 1 /\ denied(Len(t)))

\* a debug get was denied and logged; the push after it was not reached
C16_Witness ==
    \E r \in SimRuns :
        LET run == sim.runs[r]
        IN /\ run.outcome = "threw"
           /\ run.at = 2
           /\ run.trace[2].logged
           /\ Len(opsOf(heap, run.ctx)) = 3
           /\ opsOf(heap, run.ctx)[3].op = "push"
           /\ run.count = run.from

\* C17: two exec calls of the Simulated Driver on one context have the same
\* outcome: both return the same data, or both throw at the same operation.
C17_SameOutcomeTwice ==
    \A a, b \in SimRuns :
        sim.runs[a].ctx = sim.runs[b].ctx =>
            /\ sim.runs[a].outcome = sim.runs[b].outcome
            /\ sim.runs[a].at = sim.runs[b].at
            /\ sim.runs[a].value = sim.runs[b].value

----------------------------------------------------------------------------
(* Claims on the promise helpers (SpecThen, SpecChain) *)

\* what the resolver of a thenable leads to, once its promise is settled
Expected(resolver) ==
    [state |-> IF resolver.how \in {"return", "resolve"} THEN "fulfilled" ELSE "rejected",
     reason |-> IF resolver.how \in {"throw", "reject"} THEN resolver.reason ELSE NoReason]

\* the resolver of a thenable fails: it throws, or its promise is rejected
Fails(d) == d.resolver.how \in {"throw", "reject"}

\* C18: the resolver of a thenable is not called while no then, catch or
\* asCallback(done) was called on it (asCallback() without done calls
\* nothing); it is called exactly once from the first of these calls on,
\* however many follow and whether it returns, throws or rejects; every
\* consumer, and every done callback, is handed the one outcome of that
\* call; a thenable's resolver is called on account of that thenable's
\* consumers only, also when another thenable has the same resolver.
C18_ResolverCalledOnce ==
    \A i \in Thenables :
        LET d == defer.thenables[i]
        IN /\ d.consumed = 0 => (d.called = 0 /\ d.state = "idle" /\ d.seen = << >>)
           /\ d.consumed > 0 => d.called = 1
           /\ \A n \in 1..Len(d.seen) : d.seen[n] = Expected(d.resolver)
           /\ \A n \in 1..Len(d.done) : d.done[n] = Expected(d.resolver)
           /\ d.state \in {"fulfilled", "rejected"} => Len(d.seen) = d.consumed
           /\ Len(d.seen) <= d.consumed

\* two thenables of one rejecting resolver: one consumed twice after an
\* asCallback() without done, the other never consumed
C18_Witness ==
    \E i, j \in Thenables :
        /\ i # j
        /\ defer.thenables[i].resolver = defer.thenables[j].resolver
        /\ defer.thenables[i].resolver.how = "reject"
        /\ defer.thenables[i].plain = 1
        /\ defer.thenables[i].consumed = 2
        /\ Len(defer.thenables[i].seen) = 2
        /\ defer.thenables[i].called = 1
        /\ defer.thenables[j].called = 0

\* the thenable at place i of the list of run or all
Item(i) == defer.thenables[defer.chain.list[i]]

Items == 1..Len(defer.chain.list)

\* C19: under run, the resolver of a thenable is called only once the
\* thenable before it in the list is fulfilled; a rejected run carries the
\* failure of the first thenable that fails, every thenable up to it
\* having had its resolver called once and none after it; a fulfilled run
\* has called every resolver once and none failed; a run over thenables
\* none of which fails is never rejected.
C19_RunStopsAtFirstFailure ==
    defer.chain.kind = "run" =>
        /\ \A i \in Items :
             /\ Item(i).called <= 1
             /\ (i > 1 /\ Item(i).called > 0) => Item(i - 1).state = "fulfilled"
        /\ defer.chain.state = "rejected" =>
             \E k \in Items :
                 /\ Fails(Item(k))
                 /\ \A i \in Items : i < k => ~Fails(Item(i))
                 /\ defer.chain.reason = Item(k).resolver.reason
                 /\ \A i \in Items : Item(i).called = (IF i <= k THEN 1 ELSE 0)
        /\ defer.chain.state = "fulfilled" =>
             \A i \in Items : ~Fails(Item(i)) /\ Item(i).called = 1
        /\ (\A i \in Items : ~Fails(Item(i))) => defer.chain.state # "rejected"

\* run over [ok, fail, ok] is rejected with the second's failure, the third
\* resolver not called
C19_Witness ==
    /\ defer.chain.kind = "run"
    /\ defer.chain.state = "rejected"
    /\ Len(defer.chain.list) = 3
    /\ ~Fails(Item(1)) /\ Fails(Item(2)) /\ ~Fails(Item(3))
    /\ defer.chain.reason = Item(2).resolver.reason
    /\ Item(1).called = 1 /\ Item(2).called = 1 /\ Item(3).called = 0

\* a run over three thenables none of which fails is fulfilled
C19_WitnessFulfilled ==
    /\ defer.chain.kind = "run"
    /\ defer.chain.state = "fulfilled"
    /\ Len(defer.chain.list) = 3
    /\ Item(2).resolver.how = "resolve"

RECURSIVE FailuresUpTo(_)
\* the failures of the failed thenables among the first n of the list
FailuresUpTo(n) ==
    IF n = 0 THEN << >>
    ELSE IF Fails(Item(n)) THEN Append(FailuresUpTo(n - 1), Item(n).resolver.reason)
    ELSE FailuresUpTo(n - 1)

\* C20: under all, every resolver is called at most once and only once the
\* thenable before it in the list is settled; when all settles every
\* resolver has been called once; all is fulfilled exactly when no
\* thenable failed, and otherwise rejected with a MultipleError whose
\* errors are the failures of the failed thenables, one each, in order.
C20_AllCollectsFailures ==
    defer.chain.kind = "all" =>
        /\ \A i \in Items :
             /\ Item(i).called <= 1
             /\ (i > 1 /\ Item(i).called > 0) =>
                  Item(i - 1).state \in {"fulfilled", "rejected"}
        /\ defer.chain.state \in {"fulfilled", "rejected"} =>
             /\ \A i \in Items : Item(i).called = 1
             /\ defer.chain.state = "fulfilled" <=> (\A i \in Items : ~Fails(Item(i)))
             /\ defer.chain.state = "rejected" =>
                  /\ defer.chain.error = "MultipleError"
                  /\ defer.chain.errors = FailuresUpTo(Len(defer.chain.list))

----------------------------------------------------------------------------
(* The path helper *)

AllOf(str, c) == \A i \in 1..Len(str) : str[i] = c

\* str without its first a and its last d characters
Strip(str, a, d) == SubSeq(str, a + 1, Len(str) - d)

\* str is `inner` between two runs of c, `inner` neither starting nor ending with c
Between(str, inner, c) ==
    \E a, d \in 0..Len(str) :
        /\ a + d <= Len(str)
        /\ AllOf(SubSeq(str, 1, a), c)
        /\ AllOf(SubSeq(str, Len(str) - d + 1, Len(str)), c)
        /\ inner = Strip(str, a, d)
        /\ inner # << >> => Head(inner) # c /\ inner[Len(inner)] # c

\* str without some of its first and some of its last characters
Insides(str) ==
    {Strip(str, a, d) : a, d \in 0..Len(str)}

\* the positions of str where a '%'-escape (% and two hex digits) starts
Escapes(str) ==
    {i \in 1..Len(str) - 2 :
        str[i] = "%" /\ str[i + 1] \in {"2", "F"} /\ str[i + 2] \in {"2", "F"}}

\* C30: trim returns the empty string for a missing argument; otherwise the
\* result is the input without its surrounding whitespace and then without
\* its leading and trailing runs of '/', and every '%'-escape of the input
\* lies unchanged inside the result.
C30_TrimStripsEnds ==
    (pathCall.fn = "trim" /\ pathCall.done) =>
        IF pathCall.args = << >> \/ pathCall.args[1].t = "undef"
        THEN pathCall.result = << >>
        ELSE LET input == pathCall.args[1].items[1]
                 result == pathCall.result
             IN /\ \E mid \in Insides(input) :
                      /\ Between(input, mid, " ")
                      /\ Between(mid, result, "/")
                /\ \E off \in 0..Len(input) :
                      /\ off + Len(result) <= Len(input)
                      /\ result = SubSeq(input, off + 1, off + Len(result))
                      /\ \A i \in Escapes(input) :
                            off < i /\ i + 2 <= off + Len(result)

C30_Witness ==
    /\ pathCall.fn = "trim"
    /\ pathCall.done
    /\ pathCall.args = <<Str(<<" ", "/", "%", "2", "F">>)>>
    /\ pathCall.result = <<"%", "2", "F">>

C30_WitnessMissing ==
    /\ pathCall.fn = "trim"
    /\ pathCall.done
    /\ pathCall.args = << >>
    /\ pathCall.result = << >>

\* the segments of a join call, flattened and trimmed, without the empty ones
Surviving(args) ==
    LET flat == Concat(args)
        trimmed == [i \in 1..Len(flat) |-> trim(flat[i])]
    IN SelectSeq(trimmed, LAMBDA g : g # << >>)

\* C29: join flattens its arguments, trims each segment, drops the segments
\* that are empty after trimming and joins the others with one '/': the
\* result neither starts nor ends with '/', and zero segments give ''.
C29_JoinDropsEmpty ==
    (pathCall.fn = "join" /\ pathCall.done) =>
        /\ pathCall.result = JoinWith(Surviving(pathCall.args), <<"/">>)
        /\ pathCall.result # << >> =>
              /\ Head(pathCall.result) # "/"
              /\ pathCall.result[Len(pathCall.result)] # "/"
        /\ pathCall.args = << >> => pathCall.result = << >>

----------------------------------------------------------------------------
(* Claims on as and remove (SpecCtx) *)

C28_RemoveIsSetNull ==
    [][Called =>
         LET r == Len(calls')
             k == calls'[r]
             log == opsOf(heap', r)
         IN /\ \A i \in 1..Len(log) : log[i].op # "remove"
            /\ k.m = "remove" =>
                 /\ Len(log) = Len(opsOf(heap, k.on)) + 1
                 /\ log[Len(log)].op = "set"
                 /\ log[Len(log)].value = Null
                 /\ \E a \in ChainArgs :
                       /\ heap' = remove(heap, k.on, a.paths, a.options)
                       /\ heap' = set(heap, k.on, a.paths, Null, a.options)
                       /\ heap' = set(heap, k.on, a.paths, Undefined, a.options)
            /\ k.m = "set" =>
                 \A a \in ChainArgs :
                     (a.value = Undefined
                        /\ heap' = set(heap, k.on, a.paths, a.value, a.options))
                     => log = opsOf(remove(heap, k.on, a.paths, a.options), r)]_vars

\* as(bob).remove(['a', '/b/'], {debug: true}) after a set of a value
C28_Witness ==
    \E c \in Ctxs :
        /\ calls[c].m = "remove"
        /\ Len(opsOf(heap, c)) = 2
        /\ opsOf(heap, c)[1].op = "set" /\ opsOf(heap, c)[1].value = "v1"
        /\ opsOf(heap, c)[2] = [op |-> "set", path |-> <<"a", "/", "b">>, value |-> Null,
                                 auth |-> opsOf(heap, c)[1].auth, options |-> DebugOptions]

----------------------------------------------------------------------------
(* Claims on create (SpecCreate) *)

\* the create calls that returned a context
Made == {i \in 1..Len(created) : created[i].threw = ""}

\* C26: create throws when the ruleset or the driver is missing, and then
\* driver.init is not called; otherwise driver.init is called once, within
\* the create call, with the new context, which holds the ruleset and the
\* driver given, an empty log, the null identity and the null seed.  No
\* other call invokes driver.init.
C26_CreateChecksThenInits ==
    /\ \A i \in 1..Len(created) :
          LET k == created[i]
          IN /\ (k.threw # "") <=> (k.opts.rules = "" \/ k.opts.driver = "")
             /\ k.threw # "" => k.ctx = 0
             /\ k.threw = "" =>
                   /\ k.ctx \in Ctxs
                   /\ Cardinality({j \in 1..Len(stub.inits) : stub.inits[j].ctx = k.ctx}) = 1
                   /\ rulesOf(heap, k.ctx) = k.opts.rules
                   /\ heap.ctxs[k.ctx].driver = k.opts.driver
                   /\ opsOf(heap, k.ctx) = << >>
                   /\ authOf(heap, k.ctx) = NullAuth
                   /\ seedOf(heap, k.ctx) = Null
    /\ Len(stub.inits) = Cardinality(Made)
    /\ \A j \in 1..Len(stub.inits) :
          /\ \E i \in Made : created[i].ctx = stub.inits[j].ctx
          /\ stub.inits[j].ops = << >>
          /\ stub.inits[j].auth = NullAuth
          /\ stub.inits[j].seed = Null

\* create({rules}) threw, create({rules, driver}) returned a context, and a
\* chain call was made on it
C26_Witness ==
    /\ Len(created) = 2
    /\ created[1].opts = [rules |-> "R1", driver |-> ""] /\ created[1].threw # ""
    /\ created[2].opts = [rules |-> "R1", driver |-> "stub"] /\ created[2].ctx = 1
    /\ Len(stub.inits) = 1 /\ stub.inits[1].ctx = 1
    /\ Len(heap.ctxs) = 2 /\ calls[2].m = "set"

----------------------------------------------------------------------------
(* Claims on chain, then and catch (SpecRuns) *)

\* C21: every chain, then or catch call on a context calls driver.exec once,
\* with that context, and k calls make k exec calls; no call throws; a
\* driver that throws, or whose promise is rejected, gives a promise
\* rejected with the driver's error, which the rejection callback receives.
C21_EachCallRunsOnce ==
    /\ Len(stub.execs) = Len(runs)
    /\ \A i \in 1..Len(runs) :
          LET run == runs[i]
          IN /\ ~run.threw
             /\ run.exec \in 1..Len(stub.execs)
             /\ stub.execs[run.exec].ctx = run.ctx
             /\ \A j \in 1..Len(runs) : runs[j].exec = run.exec => j = i
             /\ LET e == stub.execs[run.exec]
                    failed == e.how = "throw" \/ (e.how = "reject" /\ e.state = "done")
                    passed == e.how = "return" \/ (e.how = "resolve" /\ e.state = "done")
                IN /\ failed =>
                        /\ run.state = "rejected" /\ run.reason = e.reason
                        /\ run.m \in {"then", "catch"} =>
                              run.called = "onRejected" /\ run.arg = e.reason
                   /\ passed =>
                        /\ run.state = "fulfilled"
                        /\ run.called = IF run.m = "then" THEN "onFulfilled" ELSE ""
                   /\ (~failed /\ ~passed) => run.state = "pending" /\ run.called = ""

\* then, then and catch on one context: the driver threw at the first call,
\* returned a promise rejected later at the second, a value at the third
C21_Witness ==
    /\ Len(runs) = 3
    /\ runs[1].m = "then" /\ runs[2].m = "then" /\ runs[3].m = "catch"
    /\ \A i \in 1..3 : runs[i].ctx = 2
    /\ stub.execs[1].how = "throw" /\ runs[1].called = "onRejected"
    /\ stub.execs[2].how = "reject" /\ runs[2].arg = Err("e2")
    /\ stub.execs[3].how = "return" /\ runs[3].state = "fulfilled"

----------------------------------------------------------------------------
(* Claims on ok and shouldFail (SpecAssert) *)

Asserts == 1..Len(asserts)

Settled(A) == A.th.state \in {"fulfilled", "rejected"}

\* what the driver did at the exec call assertion A made
ExecOf(A) == stub.execs[A.execs[1]]

\* C22: the deferred of ok() succeeds exactly when the driver neither throws
\* nor returns a promise that is rejected; otherwise it fails with a wrapper
\* error that carries the message and whose `original` is the driver's
\* failure, whatever that failure is.
C22_OkWrapsFailure ==
    \A a \in Asserts :
        LET A == asserts[a]
        IN (A.kind = "ok" /\ Settled(A)) =>
             /\ Len(A.execs) = 1
             /\ A.th.state = "fulfilled" <=> ExecOf(A).how \in {"return", "resolve"}
             /\ A.th.state = "rejected" =>
                   /\ A.th.reason.t = "FailureError"
                   /\ A.th.reason.original = ExecOf(A).reason
                   /\ A.th.reason.name = A.msg
                   /\ A.msg \in {DefaultOkMsg, "foo bar fails"}
             /\ \A n \in 1..Len(A.th.seen) : A.th.seen[n] = Outcome(A.th)

\* ok() consumed with then, when the driver threw an object with no stack
C22_Witness ==
    \E a \in Asserts :
        /\ asserts[a].kind = "ok" /\ ~asserts[a].hasDone
        /\ asserts[a].th.state = "rejected"
        /\ asserts[a].th.reason.original = NoStack
        /\ asserts[a].th.reason.detail = "string"
        /\ Len(asserts[a].th.seen) = 1

\* ok() consumed when the promise the driver returned was fulfilled
C22_WitnessSuccess ==
    \E a \in Asserts :
        /\ asserts[a].kind = "ok"
        /\ asserts[a].th.state = "fulfilled"
        /\ ExecOf(asserts[a]).how = "resolve"

\* C23: the deferred of shouldFail() succeeds exactly when the driver throws
\* or returns a promise that is rejected, whatever the failure; when the
\* execution succeeds it fails with an Error of the default or the given
\* message; and on every outcome of the driver exactly one of ok and
\* shouldFail succeeds.
C23_ShouldFailInverts ==
    /\ \A a \in Asserts :
          LET A == asserts[a]
          IN (A.kind = "shouldFail" /\ Settled(A)) =>
               /\ Len(A.execs) = 1
               /\ A.th.state = "fulfilled" <=> ExecOf(A).how \in {"throw", "reject"}
               /\ A.th.state = "rejected" =>
                     /\ A.th.reason = Err(A.msg)
                     /\ A.msg \in {DefaultFailMsg, "foo bar fails"}
               /\ \A n \in 1..Len(A.th.seen) : A.th.seen[n] = Outcome(A.th)
    /\ \A a \in Asserts :
          Settled(asserts[a]) =>
             LET b == Resolver(ExecOf(asserts[a]).how, ExecOf(asserts[a]).reason)
                 passes == okResolver(asserts[a].msg, b).how = "resolve"
                 fails == shouldFailResolver(asserts[a].msg, b).how = "resolve"
             IN /\ passes # fails
                /\ (asserts[a].th.state = "fulfilled") =
                      (IF asserts[a].kind = "ok" THEN passes ELSE fails)

\* shouldFail() consumed when the promise the driver returned was rejected
\* with no reason
C23_Witness ==
    \E a \in Asserts :
        /\ asserts[a].kind = "shouldFail"
        /\ asserts[a].th.state = "fulfilled"
        /\ ExecOf(asserts[a]) = [ctx |-> 2, how |-> "reject", reason |-> NoReason,
                                  state |-> "done"]

\* shouldFail({msg}) consumed when the driver returned a value
C23_WitnessCompletes ==
    \E a \in Asserts :
        /\ asserts[a].kind = "shouldFail"
        /\ asserts[a].th.state = "rejected"
        /\ asserts[a].th.reason = Err("foo bar fails")
        /\ ExecOf(asserts[a]).how = "return"

\* C24: ok() and shouldFail() without done call no exec; the first then or
\* catch on the deferred calls exec once, with the context of the
\* assertion, and the later ones call nothing.
C24_DeferredRunsOnFirstUse ==
    /\ \A a \in Asserts :
          LET A == asserts[a]
          IN ~A.hasDone =>
               /\ A.returned = "this"
               /\ A.uses = 0 => (A.execs = << >> /\ A.th.called = 0 /\ A.th.state = "idle")
               /\ A.uses > 0 => (Len(A.execs) = 1 /\ A.th.called = 1)
               /\ A.th.consumed = A.uses
               /\ \A i \in 1..Len(A.execs) :
                     /\ A.execs[i] \in 1..Len(stub.execs)
                     /\ stub.execs[A.execs[i]].ctx = A.ctx
    /\ \A x \in 1..Len(stub.execs) :
          \E a \in Asserts : \E i \in 1..Len(asserts[a].execs) : asserts[a].execs[i] = x

\* ok() consumed by then, catch and then again: one exec call
C24_Witness ==
    \E a \in Asserts :
        /\ ~asserts[a].hasDone
        /\ asserts[a].uses = 3
        /\ Len(asserts[a].th.seen) = 3
        /\ Len(stub.execs) = 1

\* ok() made and not consumed: no exec call
C24_WitnessIdle ==
    \E a \in Asserts :
        /\ ~asserts[a].hasDone /\ asserts[a].uses = 0
        /\ stub.execs = << >>

\* what done is called with: nothing on success, the reason on failure
DoneArg(o) == IF o.state = "fulfilled" THEN [t |-> "no argument"] ELSE o.reason

\* C25: ok({done}) and shouldFail({done}) call exec at once and return
\* undefined; done is called once the assertion is settled, once only:
\* without argument when it succeeded, with its error (the wrapper error of
\* ok, the Error of shouldFail) when it failed.
C25_DoneCalledOnce ==
    \A a \in Asserts :
        LET A == asserts[a]
        IN A.hasDone =>
             /\ A.returned = "undefined"
             /\ Len(A.execs) = 1 /\ A.th.called = 1
             /\ stub.execs[A.execs[1]].ctx = A.ctx
             /\ Len(A.th.done) <= 1
             /\ ~Settled(A) => A.th.done = << >>
             /\ Settled(A) =>
                   /\ Len(A.th.done) = 1
                   /\ LET failed == IF A.kind = "ok" THEN Rejects(ExecOf(A))
                                     ELSE ~Rejects(ExecOf(A))
                          arg == DoneArg(A.th.done[1])
                      IN /\ ~failed => arg = [t |-> "no argument"]
                         /\ (failed /\ A.kind = "ok") =>
                               arg = FailureError(A.msg, ExecOf(A).reason)
                         /\ (failed /\ A.kind = "shouldFail") => arg = Err(A.msg)

\* ok({done}) when the promise the driver returned was rejected: done was
\* called with the wrapper error
C25_Witness ==
    \E a \in Asserts :
        /\ asserts[a].hasDone /\ asserts[a].kind = "ok"
        /\ ExecOf(asserts[a]).how = "reject"
        /\ Len(asserts[a].th.done) = 1
        /\ DoneArg(asserts[a].th.done[1]) = FailureError(DefaultOkMsg, Err("e2"))

\* shouldFail({done}) when the driver threw: done was called without argument
C25_WitnessSuccess ==
    \E a \in Asserts :
        /\ asserts[a].hasDone /\ asserts[a].kind = "shouldFail"
        /\ ExecOf(asserts[a]).how = "throw"
        /\ asserts[a].th.done = << [state |-> "fulfilled", reason |-> NoReason] >>

----------------------------------------------------------------------------
(* Normal forms of the path helper (SpecPath) *)

\* the string starts or ends with whitespace or with '/'
Ragged(str) ==
    /\ str # << >>
    /\ \/ Head(str) \in {" ", "/"}
       \/ str[Len(str)] \in {" ", "/"}

\* C39: path normalization is idempotent: trimming the result of trim gives
\* that result again, joining the result of join gives that result again,
\* and a trimmed path neither starts nor ends with whitespace or '/'.
C39_NormalizationIdempotent ==
    /\ (pathCall.fn = "trim" /\ pathCall.done) =>
          /\ trim(Str(pathCall.result)) = pathCall.result
          /\ ~Ragged(pathCall.result)
    /\ (pathCall.fn = "join" /\ pathCall.done) =>
          join(<<Str(pathCall.result)>>) = pathCall.result

----------------------------------------------------------------------------
(* reset and the execs after it (SpecReset) *)

\* exec e is the first exec called after some reset
FirstAfterReset(e) == \E i \in Resets : calls[i].at = e - 1

\* C31: after reset() both caches are empty: the next exec issues a rules
\* request, also for a ruleset deployed with success before the reset, and
\* waits for no sequence submitted before the reset.
C31_ResetForgets ==
    \A e \in Execs :
        FirstAfterReset(e) =>
            /\ execs[e].lastSequence = 0
            /\ execs[e].rules # "skip"

----------------------------------------------------------------------------
(* The logger of the Simulated Driver (SpecSim) *)

\* C33: for an operation that has the debug option the logger is called
\* exactly once, with the trace of the permission decision and before the
\* allow/deny check, hence for a denied operation as well; for an operation
\* without the debug option the logger is not called.
C33_DebugLogsBeforeCheck ==
    \A r \in SimRuns :
        LET run == sim.runs[r]
            ops == opsOf(heap, run.ctx)
        IN \A k \in 1..Len(run.trace) :
              run.trace[k].checked =>
                  IF ops[k].options.debug = "T"
                  THEN run.trace[k].log = <<run.trace[k].info>>
                  ELSE run.trace[k].log = << >>

\* a denied get with the debug option was logged once, an operation
\* without the option before it was not
C33_Witness ==
    \E r \in SimRuns :
        LET run == sim.runs[r]
        IN /\ run.outcome = "threw" /\ run.at = 2
           /\ run.trace[2].checked /\ ~run.trace[2].allowed
           /\ Len(run.trace[2].log) = 1
           /\ run.trace[1].allowed /\ run.trace[1].log = << >>

\* an allowed get with the debug option was logged once
C33_WitnessAllowed ==
    \E r \in SimRuns :
        \E k \in 1..Len(sim.runs[r].trace) :
            /\ sim.runs[r].trace[k].allowed
            /\ Len(sim.runs[r].trace[k].log) = 1

----------------------------------------------------------------------------
(* push in the Simulated Driver (SpecSim) *)

\* the pushes the execs made so far have reached: <<run, operation>>
Pushes ==
    {p \in SimRuns \X (1..8) :
        /\ p[2] <= Len(sim.runs[p[1]].trace)
        /\ sim.runs[p[1]].trace[p[2]].op = "push"}

\* where the push p wrote: join(path, key) as a database location
PushedAt(p) ==
    LET run == sim.runs[p[1]]
        path == opsOf(heap, run.ctx)[p[2]].path
    IN Location(join(<<Str(path), Str(run.trace[p[2]].key)>>))

\* C34: each push that is reached takes exactly one key from the generator
\* when it is executed and is evaluated as a set at join(path, key); with
\* the default generator the keys of distinct pushes, of one exec or of
\* several, are pairwise distinct, so a push leaves in place the child that
\* another push created.
C34_PushTakesFreshKey ==
    /\ \A r \in SimRuns :
          LET run == sim.runs[r]
              t == run.trace
              ops == opsOf(heap, run.ctx)
          IN /\ run.count - run.from = PushesUpTo(ops, Len(t))
             /\ \A k \in 1..Len(t) :
                   /\ (t[k].key # << >>) = (t[k].op = "push")
                   /\ t[k].op = "push" =>
                         /\ t[k].allowed = allowed(rulesOf(heap, run.ctx), "write",
                                                   ops[k].auth, t[k].before)
                         /\ t[k].allowed =>
                               t[k].after = writeData(t[k].before, PushedAt(<<r, k>>),
                                                      ops[k].value)
                   /\ \A j \in 1..(k - 1) :
                         (t[j].op = "push" /\ t[j].allowed /\ t[k].op = "push") =>
                             \A l \in t[k].before :
                                 IsPrefix(PushedAt(<<r, j>>), l.path) => l \in t[k].after
    /\ \A p, q \in Pushes :
          p # q => sim.runs[p[1]].trace[p[2]].key # sim.runs[q[1]].trace[q[2]].key

\* one exec made two pushes under one path and a later exec pushed there
\* again: three children stand side by side
C34_Witness ==
    \E r, u \in SimRuns :
        /\ r < u
        /\ \E j, k \in 1..Len(sim.runs[r].trace) :
              /\ j < k
              /\ {<<r, j>>, <<r, k>>} \subseteq Pushes
              /\ sim.runs[r].trace[j].allowed /\ sim.runs[r].trace[k].allowed
              /\ opsOf(heap, sim.runs[r].ctx)[j].path = opsOf(heap, sim.runs[r].ctx)[k].path
              /\ \E l \in sim.runs[r].trace[k].after : IsPrefix(PushedAt(<<r, j>>), l.path)
              /\ \E l \in sim.runs[r].trace[k].after : IsPrefix(PushedAt(<<r, k>>), l.path)
        /\ \E k \in 1..Len(sim.runs[u].trace) :
              <<u, k>> \in Pushes /\ sim.runs[u].trace[k].allowed

----------------------------------------------------------------------------
(* Settling and the requests still out (SpecLive) *)

\* C35: once the promise returned by exec is settled, and the lock with it
\* handed to the next sequence, none of the requests that exec issued is
\* still in flight: neither its rules request, nor its seed write, nor the
\* request of one of its operations.
C35_SettledWithNothingInFlight ==
    \A e \in Execs :
        execs[e].result # "pending" =>
            /\ execs[e].rules # "inflight"
            /\ execs[e].seed # "inflight"
            /\ execs[e].flying = {}

----------------------------------------------------------------------------
(* The rules cache and the remote database (SpecDeploy) *)

\* C36: whenever an exec goes on without a rules request (the cached hash
\* is the hash of its ruleset), the ruleset the last rules request
\* installed on the remote database is the ruleset of that exec's context;
\* and a hash the cache holds is the hash of the ruleset installed.
C36_CacheHitMeansInstalled ==
    /\ \A e \in Execs :
          execs[e].rules = "skip" => execs[e].onTarget = execs[e].ruleset
    /\ (rulesRequests # 0 /\ CacheSettled(Live, rulesRequests)
            /\ CacheValue(Live, rulesRequests) # Undefined) =>
          Hash(remote) = CacheValue(Live, rulesRequests)

----------------------------------------------------------------------------
(* Executing leaves the context alone (SpecExec) *)

\* what exec reads of context c in heap h
Read(h, c) ==
    [ops |-> opsOf(h, c), seed |-> seedOf(h, c), auth |-> authOf(h, c),
     rules |-> rulesOf(h, c)]

\* C32: no step of an exec of either driver, succeeding or failing, changes
\* the operation log, the seed, the identity or the ruleset of any context,
\* the executed one and its forks alike; an exec of a context executed
\* before starts from scratch, on the seed and with the whole log.
C32_ExecLeavesContext ==
    [][ /\ Len(heap'.ctxs) = Len(heap.ctxs)
        /\ \A c \in 1..Len(heap.ctxs) : Read(heap', c) = Read(heap, c)
        /\ \A r \in 1..Len(sim'.runs) :
              LET run == sim'.runs[r]
              IN /\ Len(run.trace) > 0 =>
                       run.trace[1].before = store(seedOf(heap', run.ctx))
                 /\ \A k \in 1..Len(run.trace) :
                       run.trace[k].op = opsOf(heap', run.ctx)[k].op
        /\ \A e \in DOMAIN execs' :
              LET x == execs'[e]
              IN x.started > 0 =>
                    /\ x.sent # << >>
                    /\ \E i \in 1..Len(x.sent) :
                          x.sent[i] = Sent("seed", 0, SeedRequest(seedOf(heap', x.ctx)))
                    /\ x.result = "pending" =>
                          x.plan = OpRequests(AdminTokens, opsOf(heap', x.ctx))
      ]_vars

\* the Simulated Driver threw on a context and was then handed the same
\* context and a fork of it
C32_Witness ==
    \E r, u, w \in SimRuns :
        /\ r < u /\ u < w
        /\ sim.runs[r].ctx = 3 /\ sim.runs[r].outcome = "threw"
        /\ sim.runs[u].ctx = 3 /\ sim.runs[u].outcome = "threw"
        /\ sim.runs[w].ctx = 2 /\ sim.runs[w].outcome = "returned"
        /\ Len(opsOf(heap, 3)) = 2 /\ Len(opsOf(heap, 2)) = 1

\* the live driver rejected an exec of a context and started another exec
\* of the same context
C32_WitnessLive ==
    \E e, w \in Execs :
        /\ e < w
        /\ execs[e].ctx = 7 /\ execs[w].ctx = 7
        /\ execs[e].result = "rejected" /\ execs[e].error.what = "op"
        /\ execs[w].started > 0
        /\ Len(execs[w].plan) = 2

----------------------------------------------------------------------------
(* The administrative token (SpecAdmin) *)

\* C38: the administrative token is attached to the seed write only: no
\* request made or planned for a logged operation carries it, whatever the
\* identity of the operation (the administrator's uid included, with or
\* without the debug option), the key of an operation's token in the cache
\* being never the key of the administrative entry.
C38_AdminTokenOnlyOnSeed ==
    \A e \in Execs :
        LET x == execs[e]
            adminKey == TokenKey(adminAuth, "admin")
        IN /\ \A i \in 1..Len(x.sent) :
                 /\ x.sent[i].what = "seed" => x.sent[i].req.auth = adminToken
                 /\ x.sent[i].what = "rules" => x.sent[i].req.auth = NoToken
                 /\ x.sent[i].what = "op" =>
                       /\ x.sent[i].req.auth # adminToken
                       /\ x.sent[i].req.auth.opts # "admin"
           /\ \A k \in 1..Len(x.plan) : x.plan[k].auth.opts # "admin"
           /\ \A i \in 1..Len(x.tokens) :
                 /\ (x.tokens[i].key = adminKey) = (i = 1)
                 /\ (x.tokens[i].token.opts = "admin") = (i = 1)

\* two gets recorded under the administrator's uid were sent, one with the
\* debug option, after the seed write that carried the administrative token
C38_Witness ==
    \E e \in Execs :
        LET x == execs[e]
        IN /\ Len(x.sent) >= 3
           /\ \E i, j, k \in 1..Len(x.sent) :
                 /\ x.sent[i].what = "seed" /\ x.sent[i].req.auth = adminToken
                 /\ x.sent[j].what = "op" /\ x.sent[j].req.auth.auth = adminAuth
                 /\ x.sent[j].req.auth.opts = "debug:false"
                 /\ x.sent[k].what = "op" /\ x.sent[k].req.auth.auth = adminAuth
                 /\ x.sent[k].req.auth.opts = "debug:true"

----------------------------------------------------------------------------
(* One contract, two drivers (SpecBoth) *)

\* the operations the live exec x attempted, in the order of its requests:
\* the index, the kind and the identity of each
LiveAttempts(x) ==
    LET reqs == SelectSeq(x.sent, LAMBDA s : s.what = "op")
    IN [i \in 1..Len(reqs) |->
          [k |-> reqs[i].k, op |-> reqs[i].req.kind, auth |-> reqs[i].req.auth.auth]]

\* the operations a run of the Simulated Driver put to the rules
SimAttempts(run) ==
    LET asked == SelectSeq(run.trace, LAMBDA t : t.checked)
    IN [i \in 1..Len(asked) |->
          [k |-> asked[i].k, op |-> asked[i].op, auth |-> asked[i].auth]]

\* the remote database answered each request of x as the simulator decided
SameAnswers(run, x) ==
    \A k \in x.okOps \cup x.failedOps :
        k <= Len(run.trace) => ((k \in x.okOps) = run.trace[k].allowed)

\* C37: handed one log and the same allow/deny outcome for each of its
\* operations, with the live setup succeeding, the two drivers attempt the
\* same operations in the same order under the same identities (the log up
\* to its first failing or unknown operation) and agree on whether the exec
\* succeeds.
C37_DriversAgree ==
    \A r \in SimRuns, e \in Execs :
        LET run == sim.runs[r]
            x == execs[e]
        IN (/\ run.ctx = x.ctx
            /\ x.result # "pending"
            /\ x.seed = "ok" /\ x.rules \in {"ok", "skip"}
            /\ SameAnswers(run, x)) =>
               /\ LiveAttempts(x) = SimAttempts(run)
               /\ (x.result = "fulfilled") = (run.outcome = "returned")

----------------------------------------------------------------------------
(* The chained Context of the legacy test suite (SpecLegacy) *)

\* C40: a chained call (as, get, set, update, push, remove) takes effect on
\* the connection only once every call chained before it has settled, so
\* the effects occur in chaining order; the log-out of as() without uid is
\* no exception.
C40_LegacyEffectsInChainOrder ==
    /\ \A i, j \in 1..Len(legacy.effects) :
          i < j => legacy.effects[i].n <= legacy.effects[j].n
    /\ \A i \in 1..Len(legacy.effects) :
          \A t \in 1..Len(legacy.todo) : legacy.todo[t].n >= legacy.effects[i].n
    /\ legacy.flying # 0 => legacy.flying = Len(legacy.effects)

====
